---- MODULE Spec2Model ----
(***************************************************************************)
(* A model of the rururu-color daemon (packages/rururu-color): the HDR     *)
(* controller (hdr.rs), the ICC profile index (icc.rs), monitor detection  *)
(* (monitor.rs), configuration loading (config.rs) and the service that    *)
(* ties them together (dbus.rs).                                           *)
(*                                                                         *)
(* Strings the code inspects character by character (connector names,      *)
(* connector status, path components) are tuples of one-character strings. *)
(* Option<T> is [some |-> FALSE] or [some |-> TRUE, v |-> x]; a Result is  *)
(* a record with a tag.                                                    *)
(***************************************************************************)
EXTENDS Integers, Sequences, FiniteSets, TLC

VARIABLES
    hdr_support,   \* HdrSupport { enabled, monitors }            (hdr.rs:8)
    monitors,      \* ColorService.monitors: Vec<MonitorProfile>  (dbus.rs:15)
    config,        \* ColorService.config: ColorConfig            (dbus.rs:11)
    svc,           \* "new" | "running" | "failed": how run_service went
    drm,           \* the platform: /sys/class/drm entries
    cfgFile,       \* the platform: ~/.config/rururu/color.toml
    files,         \* the platform: files of the profile directories
    dirOrder,      \* the platform: the order read_dir yields entries in
    profiles,      \* IccManager.profiles: HashMap<String, IccProfile> (icc.rs:39)
    buf,           \* a byte buffer handed to the ICC header parser
    ocio_manager,  \* ColorService.ocio_manager: OcioManager     (dbus.rs:13)
    docs,          \* the platform: the OCIO documents, by path
    tasks,         \* the calls in progress: operation, position, locals
    locks,         \* the RwLocks of ColorService: writer and readers
    last           \* the most recent call: operation, arguments, result

vars == <<hdr_support, monitors, config, svc, drm, cfgFile, files, dirOrder,
          profiles, buf, ocio_manager, docs, tasks, locks, last>>

\* A variable a specification does not use.
Idle == "idle"

\* The OCIO manager and the calls in progress, where they are not examined
OtherIdle ==
    ocio_manager = Idle /\ docs = Idle /\ tasks = Idle /\ locks = Idle

OtherFrame == UNCHANGED <<ocio_manager, docs, tasks, locks>>

---------------------------------------------------------------------------
(* Option, Result, strings *)

None == [some |-> FALSE]

Some(x) == [some |-> TRUE, v |-> x]

Ok == [tag |-> "Ok"]

HdrNotSupported == [tag |-> "HdrNotSupported"]

MonitorNotFound(name) == [tag |-> "MonitorNotFound", name |-> name]

IccError(msg) == [tag |-> "IccError", msg |-> msg]

IoError == [tag |-> "Io"]

ConfigError == [tag |-> "Config"]

is_ok(r) == r.tag = "Ok"

\* str::starts_with
starts_with(s, p) == Len(p) <= Len(s) /\ SubSeq(s, 1, Len(p)) = p

\* str::contains(char)
contains(s, c) == \E i \in 1..Len(s) : s[i] = c

Whitespace == {" ", "\n", "\t"}

RECURSIVE trim_start(_)
trim_start(s) ==
    IF s # <<>> /\ Head(s) \in Whitespace THEN trim_start(Tail(s)) ELSE s

RECURSIVE trim_end(_)
trim_end(s) ==
    IF s # <<>> /\ s[Len(s)] \in Whitespace
    THEN trim_end(SubSeq(s, 1, Len(s) - 1)) ELSE s

\* str::trim
trim(s) == trim_end(trim_start(s))

\* Iterator::find over a Vec of records with a name: the first index, 0 if none
find(v, name) ==
    IF \E i \in 1..Len(v) : v[i].name = name
    THEN CHOOSE i \in 1..Len(v) :
            v[i].name = name /\ \A j \in 1..(i - 1) : v[j].name # name
    ELSE 0

RECURSIVE SeqFilter(_, _)
SeqFilter(s, keep) ==
    IF s = <<>> THEN <<>>
    ELSE IF Head(s) \in keep THEN <<Head(s)>> \o SeqFilter(Tail(s), keep)
    ELSE SeqFilter(Tail(s), keep)

\* The injective sequences of length at most n over S
RECURSIVE InjSeqs(_, _)
InjSeqs(S, n) ==
    IF n = 0 THEN {<<>>}
    ELSE LET shorter == InjSeqs(S, n - 1)
         IN shorter \cup
            {Append(q, x) : <<q, x>> \in
                {<<q, x>> \in shorter \X S :
                    Len(q) = n - 1 /\ \A i \in 1..Len(q) : q[i] # x}}

---------------------------------------------------------------------------
(* Names *)

N_Default == <<"D", "e", "f", "a", "u", "l", "t">>

N_card0 == <<"c", "a", "r", "d", "0">>

N_DP1 == <<"c", "a", "r", "d", "0", "-", "D", "P", "-", "1">>

N_HDMI1 == <<"c", "a", "r", "d", "0", "-", "H", "D", "M", "I", "-", "1">>

N_version == <<"v", "e", "r", "s", "i", "o", "n">>

S_card == <<"c", "a", "r", "d">>

S_connected == <<"c", "o", "n", "n", "e", "c", "t", "e", "d">>

S_disconnected == <<"d", "i", "s">> \o S_connected

---------------------------------------------------------------------------
(* monitor.rs: the capability record, and hdr.rs: the HDR controller *)

HdrCapability == {"None", "Hdr10", "Hdr10Plus", "DolbyVision", "HlgBt2100"}

\* detect_capabilities reading an HDR10 capability off every connector
detect_capabilities_hdr10(path) ==
    [color_depth |-> "Bit10", hdr_support |-> "Hdr10", wide_gamut |-> TRUE,
     native_gamma |-> "2.2", max_luminance |-> Some(1000),
     min_luminance |-> Some("0.5"), color_gamut |-> "Rec2020"]

\* detect_capabilities: a fixed value, whatever the connector
detect_capabilities(path) ==
    [color_depth |-> "Bit8", hdr_support |-> "None", wide_gamut |-> FALSE,
     native_gamma |-> "2.2", max_luminance |-> Some(300),
     min_luminance |-> Some("0.5"), color_gamut |-> "Srgb"]

\* The String of a name
RECURSIVE to_string(_)
to_string(s) == IF s = <<>> THEN "" ELSE Head(s) \o to_string(Tail(s))

\* default_edid(name)
default_edid(name) ==
    [manufacturer |-> "Unknown", model |-> to_string(name), serial |-> None, year |-> 2024,
     resolution |-> <<1920, 1080>>, physical_size_mm |-> None]

\* The placeholder detect_monitors pushes when it found no monitor
PlaceholderMonitor ==
    [name |-> N_Default,
     edid |-> [manufacturer |-> "Unknown", model |-> "Unknown Monitor",
               serial |-> None, year |-> 2024, resolution |-> <<1920, 1080>>,
               physical_size_mm |-> None],
     capabilities |->
        [color_depth |-> "Bit8", hdr_support |-> "None", wide_gamut |-> FALSE,
         native_gamma |-> "2.2", max_luminance |-> Some(300),
         min_luminance |-> Some("0.5"), color_gamut |-> "Srgb"],
     calibration |-> None, icc_profile |-> None]

\* default_hdr10_metadata()
default_hdr10_metadata ==
    [format |-> "Hdr10", max_luminance |-> 1000, max_frame_average |-> 400,
     min_luminance |-> "0.001", primaries |-> "bt2020",
     white_point |-> <<"0.3127", "0.3290">>, transfer_function |-> "Pq"]

\* HdrSupport::new()
HdrNew == [enabled |-> FALSE, monitors |-> <<>>]

\* The filter of HdrSupport::detect keeping every monitor
HdrCapable_any(m) == TRUE

\* The filter of HdrSupport::detect: the monitors it keeps
HdrCapable(m) == m.capabilities.hdr_support # "None"

RECURSIVE hdr_monitors(_)
hdr_monitors(ms) ==
    IF ms = <<>> THEN <<>>
    ELSE IF HdrCapable(Head(ms))
         THEN <<[name |-> Head(ms).name, hdr_active |-> FALSE,
                 capability |-> Head(ms).capabilities.hdr_support,
                 metadata |-> None]>> \o hdr_monitors(Tail(ms))
         ELSE hdr_monitors(Tail(ms))

\* HdrSupport::detect carrying over the state of the monitors tracked so far
HdrDetect_merge(ms) ==
    LET tracked == hdr_monitors(ms)
        merged ==
            [i \in 1..Len(tracked) |->
                LET j == find(hdr_support.monitors, tracked[i].name)
                IN IF j = 0 THEN tracked[i]
                   ELSE [tracked[i] EXCEPT
                            !.hdr_active = hdr_support.monitors[j].hdr_active,
                            !.metadata = hdr_support.monitors[j].metadata]]
    IN [enabled |-> tracked # <<>>, monitors |-> merged]

\* HdrSupport::detect, given what its call of detect_monitors() returned
HdrDetect(ms) ==
    LET tracked == hdr_monitors(ms)
    IN [enabled |-> tracked # <<>>, monitors |-> tracked]

\* enable_hdr_drm / disable_hdr_drm: the platform call, whose result is dropped
enable_hdr_drm(monitor) == Ok

\* What a platform call may answer once it talks to DRM/KMS
PlatformOutcomes == {Ok, IoError}

disable_hdr_drm(monitor) == Ok

\* enable_hdr handing the platform call's error on (`?` for `let _ =`)
enable_hdr_propagate(h, monitor_name, platform) ==
    LET i == find(h.monitors, monitor_name)
    IN IF i = 0
       THEN [hdr |-> h, res |-> MonitorNotFound(monitor_name)]
       ELSE IF h.monitors[i].capability = "None"
       THEN [hdr |-> h, res |-> HdrNotSupported]
       ELSE IF ~is_ok(platform)
       THEN [hdr |-> h, res |-> platform]
       ELSE [hdr |-> [h EXCEPT !.monitors[i].hdr_active = TRUE,
                               !.monitors[i].metadata =
                                    Some(default_hdr10_metadata)],
             res |-> Ok]

\* enable_hdr without its capability check
enable_hdr_unchecked(h, monitor_name, platform) ==
    LET i == find(h.monitors, monitor_name)
    IN IF i = 0
       THEN [hdr |-> h, res |-> MonitorNotFound(monitor_name)]
       ELSE [hdr |-> [h EXCEPT !.monitors[i].hdr_active = TRUE,
                               !.monitors[i].metadata =
                                    Some(default_hdr10_metadata)],
             res |-> Ok]

\* HdrSupport::enable_hdr: the controller after the call, and its result.
\* platform is what enable_hdr_drm(monitor_name) answered; `let _ =` drops it.
enable_hdr(h, monitor_name, platform) ==
    LET i == find(h.monitors, monitor_name)
    IN IF i = 0
       THEN [hdr |-> h, res |-> MonitorNotFound(monitor_name)]
       ELSE IF h.monitors[i].capability = "None"
       THEN [hdr |-> h, res |-> HdrNotSupported]
       ELSE [hdr |-> [h EXCEPT !.monitors[i].hdr_active = TRUE,
                               !.monitors[i].metadata =
                                    Some(default_hdr10_metadata)],
             res |-> Ok]

\* disable_hdr leaving the metadata in place
disable_hdr_keep_metadata(h, monitor_name) ==
    LET i == find(h.monitors, monitor_name)
    IN IF i = 0
       THEN [hdr |-> h, res |-> MonitorNotFound(monitor_name)]
       ELSE [hdr |-> [h EXCEPT !.monitors[i].hdr_active = FALSE],
             res |-> Ok]

\* disable_hdr taking an unknown name for a monitor that is already off
disable_hdr_lenient(h, monitor_name) ==
    LET i == find(h.monitors, monitor_name)
    IN IF i = 0
       THEN [hdr |-> h, res |-> Ok]
       ELSE [hdr |-> [h EXCEPT !.monitors[i].hdr_active = FALSE,
                               !.monitors[i].metadata = None],
             res |-> Ok]

\* HdrSupport::disable_hdr
disable_hdr(h, monitor_name) ==
    LET i == find(h.monitors, monitor_name)
    IN IF i = 0
       THEN [hdr |-> h, res |-> MonitorNotFound(monitor_name)]
       ELSE [hdr |-> [h EXCEPT !.monitors[i].hdr_active = FALSE,
                               !.monitors[i].metadata = None],
             res |-> Ok]

\* set_hdr_metadata without its check of hdr_active
set_hdr_metadata_unchecked(h, monitor_name, metadata) ==
    LET i == find(h.monitors, monitor_name)
    IN IF i = 0
       THEN [hdr |-> h, res |-> MonitorNotFound(monitor_name)]
       ELSE [hdr |-> [h EXCEPT !.monitors[i].metadata = Some(metadata)],
             res |-> Ok]

\* HdrSupport::set_hdr_metadata
set_hdr_metadata(h, monitor_name, metadata) ==
    LET i == find(h.monitors, monitor_name)
    IN IF i = 0
       THEN [hdr |-> h, res |-> MonitorNotFound(monitor_name)]
       ELSE IF ~h.monitors[i].hdr_active
       THEN [hdr |-> h, res |-> HdrNotSupported]
       ELSE [hdr |-> [h EXCEPT !.monitors[i].metadata = Some(metadata)],
             res |-> Ok]

\* HdrSupport::is_hdr_active
is_hdr_active(h, monitor_name) ==
    LET i == find(h.monitors, monitor_name)
    IN IF i = 0 THEN FALSE ELSE h.monitors[i].hdr_active

---------------------------------------------------------------------------
(* The HDR controller on its own.  detect_capabilities reports "None" for  *)
(* every connector, so inside the daemon the controller tracks no monitor. *)
(* HdrSupport, HdrMonitorState and MonitorProfile are public types with    *)
(* public fields: here the controller is examined as a library value,      *)
(* built by HdrSupport::detect's filter from monitor lists of any          *)
(* capability, or built field by field by a caller in the shape detect     *)
(* gives its entries (inactive, no metadata).                              *)

MaxMonitors == 2

HdrNames == {N_Default, N_DP1, N_HDMI1}

\* The capabilities the monitor lists are drawn from
ListCaps == {"None", "Hdr10", "HlgBt2100"}

\* A MonitorProfile of a given name and HDR capability
MonitorOf(name, cap) ==
    [name |-> name, edid |-> default_edid(name),
     capabilities |-> [detect_capabilities(name) EXCEPT !.hdr_support = cap],
     calibration |-> None, icc_profile |-> None]

MonitorLists ==
    UNION {{[i \in 1..Len(q) |-> MonitorOf(q[i], c[i])] :
                c \in [1..Len(q) -> ListCaps]} :
           q \in InjSeqs(HdrNames, MaxMonitors)}

\* HdrSupport { enabled, monitors } written out by a caller
HdrConstructed ==
    UNION {{[enabled |-> q # <<>>,
             monitors |-> [i \in 1..Len(q) |->
                            [name |-> q[i], hdr_active |-> FALSE,
                             capability |-> c[i], metadata |-> None]]] :
                c \in [1..Len(q) -> ListCaps]} :
           q \in InjSeqs(HdrNames, MaxMonitors)}

\* Metadata a caller may hand to set_hdr_metadata
HlgMetadata ==
    [format |-> "Hlg", max_luminance |-> 600, max_frame_average |-> 300,
     min_luminance |-> "0.005", primaries |-> "bt2020",
     white_point |-> <<"0.3127", "0.3290">>, transfer_function |-> "Hlg"]

Metadatas == {default_hdr10_metadata, HlgMetadata}

HdrIdle ==
    /\ monitors = Idle /\ config = Idle /\ svc = Idle /\ drm = Idle
    /\ cfgFile = Idle /\ files = Idle /\ dirOrder = Idle /\ profiles = Idle
    /\ buf = Idle /\ OtherIdle

HdrFrame ==
    /\ UNCHANGED <<monitors, config, svc, drm, cfgFile, files, dirOrder,
                   profiles, buf>>
    /\ OtherFrame

InitHdr ==
    /\ HdrIdle
    /\ hdr_support \in HdrConstructed
    /\ last = [op |-> "new", name |-> <<>>, res |-> Ok]

\* HdrSupport::detect over a monitor list replaces the controller
HdrRedetect ==
    \E ms \in MonitorLists :
        /\ hdr_support' = HdrDetect(ms)
        /\ last' = [op |-> "detect", name |-> <<>>, res |-> Ok,
                    was_active |->
                        {n \in HdrNames : is_hdr_active(hdr_support, n)}]
        /\ HdrFrame

\* enable_hdr, for either answer of the platform call
HdrEnable ==
    \E n \in HdrNames, drm_res \in PlatformOutcomes :
        LET r == enable_hdr(hdr_support, n, drm_res)
        IN /\ hdr_support' = r.hdr
           /\ last' = [op |-> "enable_hdr", name |-> n, res |-> r.res,
                       platform |-> drm_res]
           /\ HdrFrame

HdrDisable ==
    \E n \in HdrNames :
        LET r == disable_hdr(hdr_support, n)
        IN /\ hdr_support' = r.hdr
           /\ last' = [op |-> "disable_hdr", name |-> n, res |-> r.res]
           /\ HdrFrame

HdrSetMetadata ==
    \E n \in HdrNames, m \in Metadatas :
        LET r == set_hdr_metadata(hdr_support, n, m)
        IN /\ hdr_support' = r.hdr
           /\ last' = [op |-> "set_hdr_metadata", name |-> n, meta |-> m,
                       res |-> r.res]
           /\ HdrFrame

HdrIsActive ==
    \E n \in HdrNames :
        /\ last' = [op |-> "is_hdr_active", name |-> n,
                    res |-> is_hdr_active(hdr_support, n)]
        /\ UNCHANGED hdr_support
        /\ HdrFrame

NextHdr ==
    \/ HdrRedetect
    \/ HdrEnable
    \/ HdrDisable
    \/ HdrSetMetadata
    \/ HdrIsActive

SpecHdr == InitHdr /\ [][NextHdr]_vars

---------------------------------------------------------------------------
(* icc.rs: paths, file contents, the ICC header parser *)

\* A path is [dir |-> its directory's components, name |-> the file name's
\* characters]; a path with no file name (one ending in "..") has name <<>>.
system_paths ==
    << <<"usr", "share", "color", "icc">>,
       <<"usr", "local", "share", "color", "icc">>,
       <<"var", "lib", "colord", "icc">> >>

\* dirs::data_dir().join("icc")
user_path == <<"home", "u", ".local", "share", "icc">>

E_icc == <<"i", "c", "c">>

E_icm == <<"i", "c", "m">>

E_txt == <<"t", "x", "t">>

\* The index of the last "." of a file name, 0 if it has none
last_dot(name) ==
    IF \E i \in 1..Len(name) : name[i] = "."
    THEN CHOOSE i \in 1..Len(name) :
            name[i] = "." /\ \A j \in (i + 1)..Len(name) : name[j] # "."
    ELSE 0

\* Path::extension: what follows the last dot, unless the name starts with it
extension(path) ==
    LET i == last_dot(path.name)
    IN IF i <= 1 THEN None
       ELSE Some(SubSeq(path.name, i + 1, Len(path.name)))

\* Path::file_stem
file_stem(path) ==
    LET i == last_dot(path.name)
    IN IF path.name = <<>> THEN None
       ELSE IF i <= 1 THEN Some(path.name)
       ELSE Some(SubSeq(path.name, 1, i - 1))

\* Path::file_name
file_name(path) == IF path.name = <<>> THEN None ELSE Some(path.name)

\* Path::starts_with(base) for a base that is a directory: by whole components
path_starts_with(path, base) == starts_with(path.dir, base)

\* Path::join
join(dir, name) == [dir |-> dir, name |-> name]

RECURSIVE slashed(_)
slashed(comps) ==
    IF comps = <<>> THEN <<>> ELSE <<"/", Head(comps)>> \o slashed(Tail(comps))

\* Path::to_string_lossy
to_string_lossy(path) == slashed(path.dir) \o <<"/">> \o path.name

\* The length of the ICC header
HeaderLen == 128

\* u32::from_be_bytes
from_be_bytes(b) == b[1] * 16777216 + b[2] * 65536 + b[3] * 256 + b[4]

\* A file's content: whether std::fs::read succeeds, its length, and the
\* header fields the parser reads: bytes 0..4, 12..16 and 16..20.
FileData(readable, len, size, class, space) ==
    [readable |-> readable, len |-> len, size |-> size, class |-> class,
     space |-> space]

color_space_of(sig) ==
    CASE sig = "RGB " -> "RGB"
      [] sig = "CMYK" -> "CMYK"
      [] sig = "GRAY" -> "Gray"
      [] sig = "Lab " -> "Lab"
      [] sig = "XYZ " -> "XYZ"
      [] OTHER -> "Unknown"

profile_class_of(sig) ==
    CASE sig = "scnr" -> "Input"
      [] sig = "mntr" -> "Display"
      [] sig = "prtr" -> "Output"
      [] sig = "link" -> "DeviceLink"
      [] sig = "spac" -> "ColorSpace"
      [] sig = "abst" -> "Abstract"
      [] sig = "nmcl" -> "NamedColor"
      [] OTHER -> "Unknown"

\* load_profile accepting a profile only if the file is longer than declared
load_profile_strict(path, data) ==
    IF ~data.readable THEN IoError
    ELSE IF data.len < HeaderLen THEN IccError("Profile too small")
    ELSE IF data.len <= from_be_bytes(data.size)
    THEN IccError("Incomplete profile")
    ELSE [tag |-> "Ok", profile |-> [path |-> path, name |-> <<>>]]

\* IccManager::load_profile, given what std::fs::read finds at the path
load_profile(path, data) ==
    IF ~data.readable THEN IoError
    ELSE IF data.len < HeaderLen THEN IccError("Profile too small")
    ELSE IF data.len < from_be_bytes(data.size)
    THEN IccError("Incomplete profile")
    ELSE LET stem == file_stem(path)
             name == IF stem.some THEN stem.v
                     ELSE <<"U", "n", "k", "n", "o", "w", "n">>
         IN [tag |-> "Ok",
             profile |->
                [path |-> path, name |-> name, description |-> name,
                 color_space |-> color_space_of(data.space),
                 profile_class |-> profile_class_of(data.class),
                 white_point |-> <<"0.9505", "1.0", "1.0890">>,
                 copyright |-> None]]

---------------------------------------------------------------------------
(* The ICC header parser on byte buffers *)

MaxBufLen == 260

\* Sample values of the four bytes of the size field.  The first byte stays
\* below 128: the model's integers end at 2^31 - 1.
SizeFields == {0, 127} \X {0, 1} \X {0, 1} \X {0, 1, 128, 129}

Buffers ==
    {FileData(TRUE, n, sz, c, sp) :
        n \in 0..MaxBufLen, sz \in SizeFields, c \in {"mntr", "prtr", "junk"},
        sp \in {"RGB ", "CMYK"}}

\* The path the buffers are read from
SamplePath == join(user_path, <<"P", "3", ".", "i", "c", "c">>)

ParseIdle ==
    /\ hdr_support = Idle /\ monitors = Idle /\ config = Idle /\ svc = Idle
    /\ drm = Idle /\ cfgFile = Idle /\ files = Idle /\ dirOrder = Idle
    /\ profiles = Idle /\ OtherIdle

InitParse ==
    /\ ParseIdle
    /\ buf \in Buffers
    /\ last = [op |-> "read"]

ParseHeader ==
    /\ last.op = "read"
    /\ last' = [op |-> "load_profile", res |-> load_profile(SamplePath, buf)]
    /\ UNCHANGED <<hdr_support, monitors, config, svc, drm, cfgFile, files,
                   dirOrder, profiles, buf>>
    /\ OtherFrame

NextParse == ParseHeader

SpecParse == InitParse /\ [][NextParse]_vars

---------------------------------------------------------------------------
(* icc.rs: the profile index *)

\* HashMap::new()
EmptyMap == [n \in {} |-> n]

\* HashMap::insert
insert(map, key, value) ==
    [k \in DOMAIN map \cup {key} |-> IF k = key THEN value ELSE map[k]]

\* HashMap::remove
remove(map, key) == [k \in DOMAIN map \ {key} |-> map[k]]

\* std::fs::read_dir(dir): the names of the directory's files, in the order
\* the platform yields them
read_dir(fs, order, dir) ==
    SeqFilter(order, {f.name : f \in {g \in DOMAIN fs : g.dir = dir}})

\* The loop of scan_directory over the entries read_dir yielded
RECURSIVE scan_entries(_, _, _, _)
scan_entries(index, fs, dir, names) ==
    IF names = <<>> THEN index
    ELSE LET path == join(dir, Head(names))
             ext == extension(path)
             loaded == load_profile(path, fs[path])
             next ==
                IF ext.some /\ (ext.v = E_icc \/ ext.v = E_icm) /\ is_ok(loaded)
                THEN insert(index, loaded.profile.name, loaded.profile)
                ELSE index
         IN scan_entries(next, fs, dir, Tail(names))

\* IccManager::scan_directory
scan_directory(index, fs, order, dir) ==
    scan_entries(index, fs, dir, read_dir(fs, order, dir))

RECURSIVE scan_paths(_, _, _, _)
scan_paths(index, fs, order, dirs) ==
    IF dirs = <<>> THEN index
    ELSE scan_paths(scan_directory(index, fs, order, Head(dirs)), fs, order,
                    Tail(dirs))

\* scan_profiles going through the user directory first
scan_profiles_user_first(index, fs, order) ==
    scan_paths(EmptyMap, fs, order, <<user_path>> \o system_paths)

\* scan_profiles without the clear() it starts with
scan_profiles_keep(index, fs, order) ==
    scan_paths(index, fs, order, Append(system_paths, user_path))

\* IccManager::scan_profiles
scan_profiles(index, fs, order) ==
    scan_paths(EmptyMap, fs, order, Append(system_paths, user_path))

\* IccManager::get_profile
get_profile(index, name) ==
    IF name \in DOMAIN index THEN Some(index[name]) ELSE None

\* IccManager::list_profiles (the order of a HashMap's values is not kept)
list_profiles(index) == {index[n] : n \in DOMAIN index}

\* IccManager::list_display_profiles
list_display_profiles(index) ==
    {pr \in list_profiles(index) : pr.profile_class = "Display"}

\* install_profile recording the path it copied from
install_profile_source_path(index, fs, source, data, mkdir_ok, copy_ok) ==
    LET filename == file_name(source)
    IN IF ~mkdir_ok THEN [index |-> index, fs |-> fs, res |-> IoError]
       ELSE IF ~filename.some
       THEN [index |-> index, fs |-> fs, res |-> IccError("Invalid filename")]
       ELSE IF ~(data.some /\ data.v.readable /\ copy_ok)
       THEN [index |-> index, fs |-> fs, res |-> IoError]
       ELSE LET dest == join(user_path, filename.v)
                fs2 == insert(fs, dest, data.v)
                loaded == load_profile(source, fs2[dest])
            IN [index |-> IF is_ok(loaded)
                          THEN insert(index, loaded.profile.name, loaded.profile)
                          ELSE index,
                fs |-> fs2, res |-> Ok]

\* IccManager::install_profile.  source is the path handed in and data what
\* is found there (None: no such file); mkdir_ok and copy_ok are whether
\* create_dir_all and std::fs::copy succeed.  The index, the files and the
\* result after the call.
install_profile(index, fs, source, data, mkdir_ok, copy_ok) ==
    LET filename == file_name(source)
    IN IF ~mkdir_ok THEN [index |-> index, fs |-> fs, res |-> IoError]
       ELSE IF ~filename.some
       THEN [index |-> index, fs |-> fs, res |-> IccError("Invalid filename")]
       ELSE IF ~(data.some /\ data.v.readable /\ copy_ok)
       THEN [index |-> index, fs |-> fs, res |-> IoError]
       ELSE LET dest == join(user_path, filename.v)
                fs2 == insert(fs, dest, data.v)
                loaded == load_profile(dest, fs2[dest])
            IN [index |-> IF is_ok(loaded)
                          THEN insert(index, loaded.profile.name, loaded.profile)
                          ELSE index,
                fs |-> fs2, res |-> Ok]

\* IccManager::remove_profile.  unlink_ok is whether the platform lets the
\* file be deleted.
remove_profile(index, fs, name, unlink_ok) ==
    IF name \in DOMAIN index
    THEN IF path_starts_with(index[name].path, user_path)
         THEN IF index[name].path \in DOMAIN fs /\ unlink_ok
              THEN [index |-> remove(index, name),
                    fs |-> remove(fs, index[name].path), res |-> Ok]
              ELSE [index |-> index, fs |-> fs, res |-> IoError]
         ELSE [index |-> index, fs |-> fs,
               res |-> IccError("Cannot remove system profile")]
    ELSE [index |-> index, fs |-> fs, res |-> Ok]

\* ColorService::list_profiles
svc_list_profiles(index) == {pr.name : pr \in list_profiles(index)}

\* ColorService::list_display_profiles
svc_list_display_profiles(index) ==
    {pr.name : pr \in list_display_profiles(index)}

\* ColorService::get_profile_path
svc_get_profile_path(index, name) ==
    LET found == get_profile(index, name)
    IN IF found.some THEN to_string_lossy(found.v.path) ELSE <<>>

---------------------------------------------------------------------------
(* The profile index and the profile directories.  Other programs put      *)
(* files into the first system directory and delete files anywhere; the    *)
(* user directory is filled by install_profile.                            *)

MaxFiles == 2

T_P3 == <<"P", "3">>

T_sRGB == <<"s", "R", "G", "B">>

F_P3_icc == T_P3 \o <<".">> \o E_icc

F_P3_icm == T_P3 \o <<".">> \o E_icm

F_sRGB_icc == T_sRGB \o <<".">> \o E_icc

F_sRGB_txt == T_sRGB \o <<".">> \o E_txt

\* The files other programs write
SystemFiles == {join(system_paths[1], n) : n \in {F_P3_icc, F_P3_icm, F_sRGB_icc}}

\* Where install_profile is handed files from; <<>> is a path with no file name
SourceDir == <<"home", "u", "Downloads">>

Sources == {join(SourceDir, n) : n \in {F_P3_icc, F_sRGB_txt, <<>>}}

\* The names remove_profile is called with
ProfileNames == {T_P3, T_sRGB}

GoodDisplay == FileData(TRUE, 128, <<0, 0, 0, 128>>, "mntr", "RGB ")

GoodPrinter == FileData(TRUE, 384, <<0, 0, 1, 0>>, "prtr", "CMYK")

Truncated == FileData(TRUE, 128, <<0, 0, 1, 0>>, "mntr", "RGB ")

FileDatas == {GoodDisplay, GoodPrinter, Truncated}

\* The orders read_dir may yield the names in: a property of the platform
NameOrders ==
    LET up == <<F_P3_icc, F_P3_icm, F_sRGB_icc, F_sRGB_txt>>
    IN {up, [i \in 1..Len(up) |-> up[Len(up) + 1 - i]]}

\* The outcomes of create_dir_all and std::fs::copy
IoOutcomes == {<<TRUE, TRUE>>, <<FALSE, TRUE>>, <<TRUE, FALSE>>}

IccIdle ==
    /\ hdr_support = Idle /\ monitors = Idle /\ config = Idle /\ svc = Idle
    /\ drm = Idle /\ cfgFile = Idle /\ buf = Idle /\ OtherIdle

IccFrame ==
    /\ UNCHANGED <<hdr_support, monitors, config, svc, drm, cfgFile, buf,
                   dirOrder>>
    /\ OtherFrame

\* IccManager::new() on a platform with no profile files yet
InitIcc ==
    /\ IccIdle
    /\ files = EmptyMap
    /\ dirOrder \in NameOrders
    /\ profiles = scan_profiles(EmptyMap, files, dirOrder)
    /\ last = [op |-> "new"]

\* Another program writes a file into a system profile directory
FsWrite ==
    \E path \in SystemFiles, data \in FileDatas :
        /\ Cardinality(DOMAIN files \cup {path}) <= MaxFiles
        /\ files' = insert(files, path, data)
        /\ last' = [op |-> "fs"]
        /\ UNCHANGED profiles
        /\ IccFrame

\* Another program deletes a file of a profile directory
FsDelete ==
    \E path \in DOMAIN files :
        /\ files' = remove(files, path)
        /\ last' = [op |-> "fs"]
        /\ UNCHANGED profiles
        /\ IccFrame

IccScan ==
    /\ profiles' = scan_profiles(profiles, files, dirOrder)
    /\ last' = [op |-> "scan_profiles"]
    /\ UNCHANGED files
    /\ IccFrame

IccInstall ==
    \E source \in Sources, data \in {None} \cup {Some(x) : x \in FileDatas},
       io \in IoOutcomes :
        LET r == install_profile(profiles, files, source, data, io[1], io[2])
        IN /\ Cardinality(DOMAIN r.fs) <= MaxFiles
           /\ profiles' = r.index
           /\ files' = r.fs
           /\ last' = [op |-> "install_profile", source |-> source,
                       res |-> r.res]
           /\ IccFrame

IccRemove ==
    \E name \in ProfileNames, unlink_ok \in BOOLEAN :
        LET r == remove_profile(profiles, files, name, unlink_ok)
        IN /\ profiles' = r.index
           /\ files' = r.fs
           /\ last' = [op |-> "remove_profile", name |-> name, res |-> r.res]
           /\ IccFrame

NextIcc ==
    \/ FsWrite
    \/ FsDelete
    \/ IccScan
    \/ IccInstall
    \/ IccRemove

SpecIcc == InitIcc /\ [][NextIcc]_vars

---------------------------------------------------------------------------
(* monitor.rs: detection *)

\* The characters of codes 64..95, for `c as char`
Chars64 ==
    <<"@", "A", "B", "C", "D", "E", "F", "G", "H", "I", "J", "K", "L", "M", "N",
      "O", "P", "Q", "R", "S", "T", "U", "V", "W", "X", "Y", "Z", "[", "\\",
      "]", "^", "_">>

\* decode_manufacturer_id: three 5-bit fields, each + b'A' - 1 in u8
decode_manufacturer_id(id) ==
    LET c1 == (((id \div 1024) % 32) + 65 - 1) % 256
        c2 == (((id \div 32) % 32) + 65 - 1) % 256
        c3 == ((id % 32) + 65 - 1) % 256
    IN Chars64[c1 - 63] \o Chars64[c2 - 63] \o Chars64[c3 - 63]

\* max
Max(x, y) == IF x >= y THEN x ELSE y

\* An EDID file: whether it can be read, its length, and the bytes
\* parse_edid reads (b[k] is byte k)
EdidData(readable, len, b) == [readable |-> readable, len |-> len, b |-> b]

\* parse_edid
parse_edid(data) ==
    IF ~data.readable THEN IoError
    ELSE IF data.len < 128 THEN IccError("EDID too small")
    ELSE LET b == data.b
             manufacturer_id == b[8] * 256 + b[9]
             h_active == ((b[58] \div 16) * 16) * 16 + b[56]
             v_active == ((b[61] \div 16) * 16) * 16 + b[59]
             h_size == ((b[68] \div 16) * 16) * 16 + b[66]
             v_size == (b[68] % 16) * 256 + b[67]
         IN [tag |-> "Ok",
             edid |->
                [manufacturer |-> decode_manufacturer_id(manufacturer_id),
                 model |-> "Monitor",
                 serial |-> None, year |-> 1990 + b[17],
                 resolution |-> <<Max(h_active, 1920), Max(v_active, 1080)>>,
                 physical_size_mm |->
                    IF h_size > 0 /\ v_size > 0
                    THEN Some(<<h_size * 10, v_size * 10>>) ELSE None]]

\* The monitor detect_monitors builds for one /sys/class/drm entry: None when
\* it skips the entry.  An entry is [status, edid]: the content of its status
\* file and its edid file, None where the file cannot be read (status) or
\* does not exist (edid).
detect_entry(name, entry) ==
    IF ~starts_with(name, S_card) \/ ~contains(name, "-") THEN None
    ELSE IF entry.status.some /\ trim(entry.status.v) # S_connected THEN None
    ELSE LET parsed == IF entry.edid.some THEN parse_edid(entry.edid.v)
                       ELSE IoError
         IN Some([name |-> name,
                  edid |-> IF entry.edid.some /\ is_ok(parsed)
                           THEN parsed.edid ELSE default_edid(name),
                  capabilities |-> detect_capabilities(name),
                  calibration |-> None, icc_profile |-> None])

\* The loop of detect_monitors over the entries read_dir yields
RECURSIVE detect_entries(_, _)
detect_entries(entries, names) ==
    IF names = <<>> THEN <<>>
    ELSE LET m == IF Head(names) \in DOMAIN entries
                  THEN detect_entry(Head(names), entries[Head(names)])
                  ELSE None
         IN (IF m.some THEN <<m.v>> ELSE <<>>)
                \o detect_entries(entries, Tail(names))

\* The order read_dir yields the entries of /sys/class/drm in
DrmOrder == <<N_card0, N_DP1, N_HDMI1, N_version>>

\* detect_monitors without the placeholder
detect_monitors_bare(d) ==
    IF d.exists THEN detect_entries(d.entries, DrmOrder) ELSE <<>>

\* detect_monitors: d is /sys/class/drm, [exists, entries]
detect_monitors(d) ==
    LET found == IF d.exists THEN detect_entries(d.entries, DrmOrder) ELSE <<>>
    IN IF found = <<>> THEN <<PlaceholderMonitor>> ELSE found

---------------------------------------------------------------------------
(* monitor.rs: the manufacturer id of an EDID.  parse_edid reads it off    *)
(* bytes 8 and 9, whatever they hold.                                      *)

\* A byte
Bytes == 0..255

DecodeIdle ==
    /\ hdr_support = Idle /\ monitors = Idle /\ config = Idle /\ svc = Idle
    /\ drm = Idle /\ cfgFile = Idle /\ files = Idle /\ dirOrder = Idle
    /\ profiles = Idle /\ OtherIdle

\* An EDID has been read: buf is its bytes 8 and 9
InitDecode ==
    /\ DecodeIdle
    /\ buf \in Bytes \X Bytes
    /\ last = [op |-> "read"]

\* parse_edid: u16::from_be_bytes([data[8], data[9]]), then
\* decode_manufacturer_id
DecodeManufacturer ==
    /\ last.op = "read"
    /\ LET manufacturer_id == buf[1] * 256 + buf[2]
       IN last' = [op |-> "decode_manufacturer_id", id |-> manufacturer_id,
                   res |-> decode_manufacturer_id(manufacturer_id)]
    /\ UNCHANGED <<hdr_support, monitors, config, svc, drm, cfgFile, files,
                   dirOrder, profiles, buf>>
    /\ OtherFrame

NextDecode == DecodeManufacturer

SpecDecode == InitDecode /\ [][NextDecode]_vars

---------------------------------------------------------------------------
(* config.rs: the configuration and its file *)

Workflow(name, space, ocio, intent, proof) ==
    [name |-> name, working_space |-> space, ocio_config |-> ocio,
     default_intent |-> intent, soft_proof_profile |-> proof]

\* default_workflows()
default_workflows ==
    [w \in {"photography", "video", "vfx", "print", "web"} |->
        CASE w = "photography" ->
                Workflow("Photography", "ProPhoto RGB", None, "Perceptual", None)
          [] w = "video" ->
                Workflow("Video Editing", "Rec.709",
                         Some("/usr/share/ocio/aces_1.2/config.ocio"),
                         "RelativeColorimetric", None)
          [] w = "vfx" ->
                Workflow("VFX / 3D", "ACEScg",
                         Some("/usr/share/ocio/aces_1.2/config.ocio"),
                         "RelativeColorimetric", None)
          [] w = "print" ->
                Workflow("Print Design", "Adobe RGB", None,
                         "RelativeColorimetric",
                         Some("/usr/share/color/icc/Fogra39.icc"))
          [] w = "web" ->
                Workflow("Web Design", "sRGB", None, "Perceptual", None)]

\* ColorConfig::default()
ColorConfigDefault ==
    [version |-> 1,
     global |-> [enabled |-> TRUE, default_profile |-> "sRGB",
                 rendering_intent |-> "Perceptual",
                 black_point_compensation |-> TRUE, gamut_warning |-> FALSE,
                 soft_proofing |-> FALSE],
     monitors |-> EmptyMap, ocio |-> None, workflows |-> default_workflows]

\* A configuration a user has saved: colour management off, one monitor, one
\* workflow
ColorConfigSaved ==
    [version |-> 1,
     global |-> [enabled |-> FALSE, default_profile |-> "sRGB",
                 rendering_intent |-> "Saturation",
                 black_point_compensation |-> TRUE, gamut_warning |-> TRUE,
                 soft_proofing |-> FALSE],
     monitors |->
        [m \in {N_DP1} |->
            [edid_name |-> "DEL", icc_profile |-> None,
             calibration_date |-> None, brightness |-> "1.0",
             contrast |-> "1.0", gamma |-> "2.2", white_point |-> 6500,
             hdr_enabled |-> FALSE, hdr_peak_luminance |-> None]],
     ocio |-> None,
     workflows |->
        [w \in {"web"} |->
            Workflow("Web Design", "sRGB", None, "Perceptual", None)]]

\* toml::from_str on the text of the file: a document, or text that is none
toml_from_str(text) ==
    IF text.toml THEN [tag |-> "Ok", v |-> text.doc] ELSE ConfigError

\* toml::to_string_pretty: the text of a document
to_string_pretty(cfg) == [toml |-> TRUE, doc |-> cfg]

\* ColorConfig::save: the file afterwards and the result.  io_ok is whether
\* create_dir_all and std::fs::write succeed; a failed save leaves the file.
save(cfg, file, io_ok) ==
    IF io_ok
    THEN [file |-> [exists |-> TRUE, readable |-> TRUE,
                    text |-> to_string_pretty(cfg)],
          res |-> Ok]
    ELSE [file |-> file, res |-> IoError]

\* PathBuf::from(String) and Path::to_str
PathBuf(str) == [os |-> str]

to_str(path) == Some(path.os)

\* ColorConfig::load: file is [exists, readable, text]
load(file) ==
    IF file.exists
    THEN IF ~file.readable THEN IoError ELSE toml_from_str(file.text)
    ELSE [tag |-> "Ok", v |-> ColorConfigDefault]

---------------------------------------------------------------------------
(* dbus.rs: the service *)

Garbage == [toml |-> FALSE, doc |-> <<>>]

\* The states the configuration file is found in at startup
CfgFiles ==
    {[exists |-> FALSE, readable |-> FALSE, text |-> Garbage],
     [exists |-> TRUE, readable |-> FALSE, text |-> Garbage],
     [exists |-> TRUE, readable |-> TRUE, text |-> Garbage],
     [exists |-> TRUE, readable |-> TRUE,
      text |-> [toml |-> TRUE, doc |-> ColorConfigSaved]]}

\* bytes 8..9: "DEL"; byte 17: 2020; 2560x1440; 597 mm x 336 mm
EdidDell ==
    EdidData(TRUE, 128,
        [k \in 0..127 |->
            CASE k = 8 -> 16 [] k = 9 -> 172 [] k = 17 -> 30
              [] k = 56 -> 0 [] k = 58 -> 160 [] k = 59 -> 160 [] k = 61 -> 80
              [] k = 66 -> 85 [] k = 67 -> 80 [] k = 68 -> 33
              [] OTHER -> 0])

EdidShort == EdidData(TRUE, 64, [k \in 0..63 |-> 0])

NL == <<"\n">>

\* What a connector's directory may hold: the status file's text (None when
\* it cannot be read) and the edid file (None when there is none)
ConnectorStates ==
    {[status |-> Some(S_connected \o NL), edid |-> Some(EdidDell)],
     [status |-> Some(S_connected \o NL), edid |-> None],
     [status |-> Some(S_disconnected \o NL), edid |-> Some(EdidDell)],
     [status |-> None, edid |-> Some(EdidShort)]}

Connectors == {N_DP1, N_HDMI1}

\* The entries of /sys/class/drm that are no connectors
FixedEntries ==
    [n \in {N_card0, N_version} |-> [status |-> None, edid |-> None]]

DrmWith(conn) ==
    [exists |-> TRUE,
     entries |-> [n \in DOMAIN conn \cup DOMAIN FixedEntries |->
                    IF n \in DOMAIN conn THEN conn[n] ELSE FixedEntries[n]]]

\* What the directory of connector n may hold: the first connector goes
\* through every case, the second is plugged in or absent
ConnectorStatesOf(n) ==
    IF n = N_DP1 THEN ConnectorStates
    ELSE {[status |-> Some(S_connected \o NL), edid |-> None]}

\* The states of /sys/class/drm
DrmStates ==
    {[exists |-> FALSE, entries |-> EmptyMap]}
        \cup UNION {{DrmWith(conn) :
                        conn \in {c \in [S -> ConnectorStates] :
                                    \A n \in S : c[n] \in ConnectorStatesOf(n)}} :
                     S \in SUBSET Connectors}

\* The connectors of d and what their directories hold
ConnectorsOf(d) ==
    [n \in DOMAIN d.entries \cap Connectors |-> d.entries[n]]

\* The states one plug, unplug or rewrite of a connector leads to
Hotplugged(d) ==
    IF ~d.exists THEN {}
    ELSE LET conn == ConnectorsOf(d)
         IN (UNION {{DrmWith([m \in DOMAIN conn \cup {n} |->
                                IF m = n THEN c ELSE conn[m]]) :
                        c \in ConnectorStatesOf(n)} : n \in Connectors}
             \cup {DrmWith([m \in DOMAIN conn \ {n} |-> conn[m]]) :
                    n \in DOMAIN conn}) \ {d}

\* The profile directories the service finds; they stay as they are
SvcFiles ==
    {EmptyMap,
     [f \in {join(system_paths[1], F_P3_icc), join(system_paths[1], F_P3_icm)}
        |-> IF f.name = F_P3_icc THEN GoodDisplay ELSE Truncated]}

\* The order read_dir yields the profile files in
SvcOrder == CHOOSE o \in NameOrders : o[1] = F_P3_icc

\* The names the HDR calls are made with
CallNames == {N_Default, N_DP1, N_HDMI1}

SvcFrame == UNCHANGED <<cfgFile, files, dirOrder, buf>> /\ OtherFrame

\* ColorService::new()
Init ==
    /\ buf = Idle
    /\ OtherIdle
    /\ drm \in DrmStates
    /\ cfgFile \in CfgFiles
    /\ files \in SvcFiles
    /\ dirOrder = SvcOrder
    /\ svc = "new"
    /\ config = ColorConfigDefault
    /\ profiles = scan_profiles(EmptyMap, files, dirOrder)
    /\ hdr_support = HdrNew
    /\ monitors = <<>>
    /\ last = [op |-> "new"]

\* run_service: init(), then the connection to the bus.  HdrSupport::detect
\* calls detect_monitors a second time; the platform may have changed by then.
RunService ==
    /\ svc = "new"
    /\ LET loaded == load(cfgFile)
       IN IF ~is_ok(loaded)
          THEN /\ svc' = "failed"
               /\ last' = [op |-> "init", load |-> loaded, res |-> loaded]
               /\ UNCHANGED <<config, profiles, monitors, hdr_support, drm>>
          ELSE \E bus_ok \in BOOLEAN, drm2 \in {drm} \cup Hotplugged(drm) :
               /\ config' = loaded.v
               /\ profiles' = scan_profiles(profiles, files, dirOrder)
               /\ monitors' = detect_monitors(drm)
               /\ hdr_support' = HdrDetect(detect_monitors(drm2))
               /\ drm' = drm2
               /\ svc' = IF bus_ok THEN "running" ELSE "failed"
               /\ last' = [op |-> "init", load |-> loaded, res |-> Ok]
    /\ SvcFrame

\* ColorService::refresh
Refresh ==
    /\ svc = "running"
    /\ \E drm2 \in {drm} \cup Hotplugged(drm) :
        /\ profiles' = scan_profiles(profiles, files, dirOrder)
        /\ monitors' = detect_monitors(drm)
        /\ hdr_support' = HdrDetect(detect_monitors(drm2))
        /\ drm' = drm2
    /\ last' = [op |-> "refresh", res |-> TRUE]
    /\ UNCHANGED <<config, svc>>
    /\ SvcFrame

\* ColorService::list_monitors
ListMonitors ==
    /\ svc = "running"
    /\ last' = [op |-> "list_monitors",
                res |-> [i \in 1..Len(monitors) |-> monitors[i].name]]
    /\ UNCHANGED <<config, svc, profiles, monitors, hdr_support, drm>>
    /\ SvcFrame

\* ColorService::enable_hdr
EnableHdr ==
    /\ svc = "running"
    /\ \E n \in CallNames :
        LET r == enable_hdr(hdr_support, n, enable_hdr_drm(n))
        IN /\ hdr_support' = r.hdr
           /\ last' = [op |-> "enable_hdr", name |-> n, err |-> r.res,
                       res |-> is_ok(r.res)]
    /\ UNCHANGED <<config, svc, profiles, monitors, drm>>
    /\ SvcFrame

\* ColorService::disable_hdr
DisableHdr ==
    /\ svc = "running"
    /\ \E n \in CallNames :
        LET r == disable_hdr(hdr_support, n)
        IN /\ hdr_support' = r.hdr
           /\ last' = [op |-> "disable_hdr", name |-> n, err |-> r.res,
                       res |-> is_ok(r.res)]
    /\ UNCHANGED <<config, svc, profiles, monitors, drm>>
    /\ SvcFrame

\* ColorService::is_hdr_active
IsHdrActive ==
    /\ svc = "running"
    /\ \E n \in CallNames :
        last' = [op |-> "is_hdr_active", name |-> n,
                 res |-> is_hdr_active(hdr_support, n)]
    /\ UNCHANGED <<config, svc, profiles, monitors, hdr_support, drm>>
    /\ SvcFrame

\* ColorService::get_monitor_profile
get_monitor_profile(cfg, monitor) ==
    IF monitor \in DOMAIN cfg.monitors /\ cfg.monitors[monitor].icc_profile.some
    THEN LET str == to_str(cfg.monitors[monitor].icc_profile.v)
         IN IF str.some THEN str.v ELSE <<>>
    ELSE <<>>

\* set_monitor_profile making an entry for a monitor the configuration has
\* none for (`entry(monitor).or_default()` for `get_mut(&monitor)`)
set_monitor_profile_inserting(cfg, file, monitor, profile_path, io_ok) ==
    LET entry ==
            IF monitor \in DOMAIN cfg.monitors THEN cfg.monitors[monitor]
            ELSE [edid_name |-> "", icc_profile |-> None,
                  calibration_date |-> None, brightness |-> "1.0",
                  contrast |-> "1.0", gamma |-> "2.2", white_point |-> 6500,
                  hdr_enabled |-> FALSE, hdr_peak_luminance |-> None]
        changed ==
            [cfg EXCEPT !.monitors =
                insert(cfg.monitors, monitor,
                       [entry EXCEPT !.icc_profile =
                            IF profile_path = <<>> THEN None
                            ELSE Some(PathBuf(profile_path))])]
        saved == save(changed, file, io_ok)
    IN [config |-> changed, file |-> saved.file, res |-> is_ok(saved.res)]

\* ColorService::set_monitor_profile: the configuration, the file and the
\* answer afterwards
set_monitor_profile(cfg, file, monitor, profile_path, io_ok) ==
    IF monitor \in DOMAIN cfg.monitors
    THEN LET changed ==
                [cfg EXCEPT !.monitors[monitor].icc_profile =
                    IF profile_path = <<>> THEN None
                    ELSE Some(PathBuf(profile_path))]
             saved == save(changed, file, io_ok)
         IN [config |-> changed, file |-> saved.file, res |-> is_ok(saved.res)]
    ELSE [config |-> cfg, file |-> file, res |-> FALSE]

\* The profile paths clients send: none, a profile of the first system
\* directory, a file that is in no profile directory
ProfilePaths ==
    {<<>>, to_string_lossy(join(system_paths[1], F_P3_icc)),
     to_string_lossy(join(<<"tmp">>, F_sRGB_icc))}

GetMonitorProfile ==
    /\ svc = "running"
    /\ \E n \in CallNames :
        last' = [op |-> "get_monitor_profile", name |-> n,
                 res |-> get_monitor_profile(config, n)]
    /\ UNCHANGED <<config, svc, profiles, monitors, hdr_support, drm, cfgFile>>
    /\ UNCHANGED <<files, dirOrder, buf>>
    /\ OtherFrame

SetMonitorProfile ==
    /\ svc = "running"
    /\ \E n \in CallNames, path \in ProfilePaths, io_ok \in BOOLEAN :
        LET r == set_monitor_profile(config, cfgFile, n, path, io_ok)
        IN /\ config' = r.config
           /\ cfgFile' = r.file
           /\ last' = [op |-> "set_monitor_profile", name |-> n,
                       path |-> path, res |-> r.res]
    /\ UNCHANGED <<svc, profiles, monitors, hdr_support, drm>>
    /\ UNCHANGED <<files, dirOrder, buf>>
    /\ OtherFrame

\* ColorService::is_hdr_supported
is_hdr_supported(h) == h.monitors # <<>>

IsHdrSupported ==
    /\ svc = "running"
    /\ last' = [op |-> "is_hdr_supported", res |-> is_hdr_supported(hdr_support)]
    /\ UNCHANGED <<config, svc, profiles, monitors, hdr_support, drm>>
    /\ SvcFrame

\* A display is plugged in or out, or its connector's files change
Hotplug ==
    /\ drm' \in Hotplugged(drm)
    /\ last' = [op |-> "hotplug"]
    /\ UNCHANGED <<config, svc, profiles, monitors, hdr_support>>
    /\ SvcFrame

Next ==
    \/ RunService
    \/ Refresh
    \/ ListMonitors
    \/ EnableHdr
    \/ DisableHdr
    \/ IsHdrActive
    \/ IsHdrSupported
    \/ GetMonitorProfile
    \/ SetMonitorProfile
    \/ Hotplug

Spec == Init /\ [][Next]_vars

---------------------------------------------------------------------------
(* ocio.rs: the parser of configuration documents.  Texts are strings. *)

OcioError(msg) == [tag |-> "OcioError", msg |-> msg]

\* The character of a text at position i
char_at(text, i) == SubSeq(text, i, i)

\* str::starts_with, str::contains(&str)
text_starts_with(text, pat) ==
    Len(pat) <= Len(text) /\ SubSeq(text, 1, Len(pat)) = pat

text_contains(text, pat) ==
    \E i \in 1..(Len(text) - Len(pat) + 1) :
        SubSeq(text, i, i + Len(pat) - 1) = pat

TextWhitespace == {" ", "\n", "\t", "\r"}

RECURSIVE text_trim_start(_)
text_trim_start(text) ==
    IF Len(text) > 0 /\ char_at(text, 1) \in TextWhitespace
    THEN text_trim_start(SubSeq(text, 2, Len(text))) ELSE text

RECURSIVE text_trim_end(_)
text_trim_end(text) ==
    IF Len(text) > 0 /\ char_at(text, Len(text)) \in TextWhitespace
    THEN text_trim_end(SubSeq(text, 1, Len(text) - 1)) ELSE text

\* str::trim
text_trim(text) == text_trim_end(text_trim_start(text))

\* str::trim_start_matches: every leading repetition of pat is removed
RECURSIVE trim_start_matches(_, _)
trim_start_matches(text, pat) ==
    IF Len(pat) > 0 /\ text_starts_with(text, pat)
    THEN trim_start_matches(SubSeq(text, Len(pat) + 1, Len(text)), pat)
    ELSE text

\* The position of the first line feed of a text, 0 if it has none
first_newline(text) ==
    IF \E i \in 1..Len(text) : char_at(text, i) = "\n"
    THEN CHOOSE i \in 1..Len(text) :
            /\ char_at(text, i) = "\n"
            /\ \A j \in 1..(i - 1) : char_at(text, j) # "\n"
    ELSE 0

\* A line without the carriage return before its line feed
strip_cr(line) ==
    IF Len(line) > 0 /\ char_at(line, Len(line)) = "\r"
    THEN SubSeq(line, 1, Len(line) - 1) ELSE line

\* str::lines
RECURSIVE lines(_)
lines(text) ==
    IF Len(text) = 0 THEN <<>>
    ELSE LET k == first_newline(text)
         IN IF k = 0 THEN <<strip_cr(text)>>
            ELSE <<strip_cr(SubSeq(text, 1, k - 1))>>
                    \o lines(SubSeq(text, k + 1, Len(text)))

\* The value of a `key: value` line
value_of(line, key) == text_trim(trim_start_matches(line, key))

\* OcioRoles::default()
OcioRolesDefault ==
    [default |-> None, reference |-> None, data |-> None,
     compositing_log |-> None, color_timing |-> None, color_picking |-> None,
     matte_paint |-> None, texture_paint |-> None, scene_linear |-> None]

\* The OcioColorSpace a marker line starts
BlankColorSpace ==
    [name |-> "", family |-> "", description |-> "", is_data |-> FALSE]

\* The locals of parse_config before its loop
ParseStart ==
    [color_spaces |-> <<>>, roles |-> OcioRolesDefault, description |-> "",
     current_section |-> "", current_colorspace |-> None]

\* The body of parse_config's loop: the locals after one more line
parse_line(st, raw) ==
    LET line == text_trim(raw)
        cs == st.current_colorspace
    IN IF text_starts_with(line, "description:")
       THEN [st EXCEPT !.description = value_of(line, "description:")]
       ELSE IF text_starts_with(line, "colorspaces:")
       THEN [st EXCEPT !.current_section = "colorspaces"]
       ELSE IF text_starts_with(line, "displays:")
       THEN [st EXCEPT !.current_section = "displays"]
       ELSE IF text_starts_with(line, "looks:")
       THEN [st EXCEPT !.current_section = "looks"]
       ELSE IF text_starts_with(line, "roles:")
       THEN [st EXCEPT !.current_section = "roles"]
       ELSE IF st.current_section = "colorspaces"
                /\ text_starts_with(line, "- !<ColorSpace>")
       THEN [st EXCEPT
                !.color_spaces = IF cs.some THEN Append(@, cs.v) ELSE @,
                !.current_colorspace = Some(BlankColorSpace)]
       ELSE IF cs.some
       THEN [st EXCEPT !.current_colorspace =
                IF text_starts_with(line, "name:")
                THEN Some([cs.v EXCEPT !.name = value_of(line, "name:")])
                ELSE IF text_starts_with(line, "family:")
                THEN Some([cs.v EXCEPT !.family = value_of(line, "family:")])
                ELSE IF text_starts_with(line, "description:")
                THEN Some([cs.v EXCEPT
                            !.description = value_of(line, "description:")])
                ELSE IF text_starts_with(line, "isdata:")
                THEN Some([cs.v EXCEPT !.is_data = text_contains(line, "true")])
                ELSE cs]
       ELSE IF st.current_section = "roles"
       THEN IF text_starts_with(line, "default:")
            THEN [st EXCEPT !.roles.default = Some(value_of(line, "default:"))]
            ELSE IF text_starts_with(line, "reference:")
            THEN [st EXCEPT
                    !.roles.reference = Some(value_of(line, "reference:"))]
            ELSE IF text_starts_with(line, "scene_linear:")
            THEN [st EXCEPT
                    !.roles.scene_linear =
                        Some(value_of(line, "scene_linear:"))]
            ELSE st
       ELSE st

\* The loop of parse_config
RECURSIVE parse_lines(_, _)
parse_lines(st, ls) ==
    IF ls = <<>> THEN st ELSE parse_lines(parse_line(st, Head(ls)), Tail(ls))

\* OcioManager::parse_config
parse_config(content, path) ==
    LET st == parse_lines(ParseStart, lines(content))
    IN [tag |-> "Ok",
        config |->
            [path |-> path, description |-> st.description,
             color_spaces |->
                IF st.current_colorspace.some
                THEN Append(st.color_spaces, st.current_colorspace.v)
                ELSE st.color_spaces,
             displays |-> <<>>, views |-> <<>>, looks |-> <<>>,
             roles |-> st.roles]]

\* OcioManager::new()
OcioNew == [config_path |-> None, config |-> None]

\* OcioManager::get_config
get_config(mgr) == mgr.config

\* OcioManager::list_color_spaces
list_color_spaces(mgr) ==
    IF mgr.config.some
    THEN [k \in 1..Len(mgr.config.v.color_spaces) |->
            mgr.config.v.color_spaces[k].name]
    ELSE <<>>

\* OcioManager::get_scene_linear
get_scene_linear(mgr) ==
    IF mgr.config.some THEN mgr.config.v.roles.scene_linear ELSE None

---------------------------------------------------------------------------
(* The parser on documents put together from sections in every order *)

MaxSections == 4

SectionKinds == {"description", "roles", "looks", "colorspaces"}

\* The colorspaces section with no entry, one entry, two entries
ColorSpaceSections == {"colorspaces0", "colorspaces1", "colorspaces2"}

EntryLin ==
    "  - !<ColorSpace>\n    name: lin\n    family: scene\n"
        \o "    description: Linear\n    isdata: false\n"

EntryRaw == "  - !<ColorSpace>\n    name: raw\n    isdata: true\n"

\* The text of a section
SectionText(id) ==
    CASE id = "description" -> "description: Studio config\r\n"
      [] id = "roles" ->
            "roles:\n  default: raw\n  reference: lin\n  scene_linear: lin\n"
      [] id = "looks" ->
            "looks:\n  - !<Look>\n    name: grade\n    process_space: lin\n"
      [] id = "colorspaces0" -> "colorspaces:\n"
      [] id = "colorspaces1" -> "colorspaces:\n" \o EntryLin
      [] id = "colorspaces2" -> "colorspaces:\n" \o EntryLin \o EntryRaw

RECURSIVE SectionsText(_)
SectionsText(ids) ==
    IF ids = <<>> THEN ""
    ELSE SectionText(Head(ids)) \o SectionsText(Tail(ids))

\* A document: the line every configuration starts with, then its sections
DocumentText(ids) == "ocio_profile_version: 1\n" \o SectionsText(ids)

\* The orders of sections a document may have
SectionOrders ==
    {[k \in 1..Len(q) |-> IF q[k] = "colorspaces" THEN v ELSE q[k]] :
        q \in InjSeqs(SectionKinds, MaxSections), v \in ColorSpaceSections}

SamplePathOcio == "/etc/ocio/studio.ocio"

OcioParseIdle ==
    /\ hdr_support = Idle /\ monitors = Idle /\ config = Idle /\ svc = Idle
    /\ drm = Idle /\ cfgFile = Idle /\ files = Idle /\ dirOrder = Idle
    /\ profiles = Idle /\ buf = Idle /\ ocio_manager = Idle /\ tasks = Idle
    /\ locks = Idle

\* A document has been read from its file
InitOcioParse ==
    /\ OcioParseIdle
    /\ \E ids \in SectionOrders :
        docs = [sections |-> ids, text |-> DocumentText(ids)]
    /\ last = [op |-> "read_to_string"]

OcioParse ==
    /\ last.op = "read_to_string"
    /\ last' = [op |-> "parse_config",
                res |-> parse_config(docs.text, PathBuf(SamplePathOcio))]
    /\ UNCHANGED <<hdr_support, monitors, config, svc, drm, cfgFile, files,
                   dirOrder, profiles, buf, ocio_manager, docs, tasks, locks>>

NextOcioParse == OcioParse

SpecOcioParse == InitOcioParse /\ [][NextOcioParse]_vars

---------------------------------------------------------------------------
(* ocio.rs, dbus.rs: the OCIO manager behind the service *)

\* Path::display / Path::to_string_lossy of a path made from a String
path_display(path) == path.os

\* load_config dropping what is loaded before it reads the file
load_config_clearing(mgr, platform, path) ==
    LET file == platform.files[path.os]
    IN IF ~file.exists
       THEN [mgr |-> OcioNew, platform |-> platform,
             res |-> OcioError("Config not found: " \o path_display(path))]
       ELSE IF ~file.readable
       THEN [mgr |-> OcioNew, platform |-> platform, res |-> IoError]
       ELSE [mgr |-> [config_path |-> Some(path),
                      config |-> Some(parse_config(file.text, path).config)],
             platform |-> [platform EXCEPT !.env = Some(path)],
             res |-> Ok]

\* OcioManager::load_config: the manager, the platform (the files and the
\* OCIO environment variable) and the result afterwards
load_config(mgr, platform, path) ==
    LET file == platform.files[path.os]
    IN IF ~file.exists
       THEN [mgr |-> mgr, platform |-> platform,
             res |-> OcioError("Config not found: " \o path_display(path))]
       ELSE IF ~file.readable
       THEN [mgr |-> mgr, platform |-> platform, res |-> IoError]
       ELSE [mgr |-> [config_path |-> Some(path),
                      config |-> Some(parse_config(file.text, path).config)],
             platform |-> [platform EXCEPT !.env = Some(path)],
             res |-> Ok]

\* OcioManager::unload_config
unload_config(mgr, platform) ==
    [mgr |-> [config_path |-> None, config |-> None],
     platform |-> [platform EXCEPT !.env = None]]

\* ColorService::get_ocio_config
get_ocio_config(mgr) ==
    IF get_config(mgr).some THEN path_display(get_config(mgr).v.path) ELSE ""

\* ColorService::set_ocio_config
set_ocio_config(mgr, platform, path) ==
    IF path = ""
    THEN LET r == unload_config(mgr, platform)
         IN [mgr |-> r.mgr, platform |-> r.platform, res |-> TRUE]
    ELSE LET r == load_config(mgr, platform, PathBuf(path))
         IN [mgr |-> r.mgr, platform |-> r.platform, res |-> is_ok(r.res)]

\* The paths clients name
OcioPaths == {"/etc/ocio/studio.ocio", "/home/u/show.ocio"}

NoFile == [exists |-> FALSE, readable |-> FALSE, text |-> ""]

\* What may be found at a path: nothing, a file that cannot be read, a
\* document, another document
OcioFilesAt(path) ==
    IF path = "/etc/ocio/studio.ocio"
    THEN {NoFile,
          [exists |-> TRUE, readable |-> FALSE, text |-> ""],
          [exists |-> TRUE, readable |-> TRUE,
           text |-> DocumentText(<<"roles", "colorspaces2">>)]}
    ELSE {NoFile,
          [exists |-> TRUE, readable |-> TRUE,
           text |-> DocumentText(<<"description", "colorspaces1">>)],
          [exists |-> TRUE, readable |-> TRUE,
           text |-> DocumentText(<<"colorspaces0", "roles">>)]}

OcioIdle ==
    /\ hdr_support = Idle /\ monitors = Idle /\ config = Idle /\ svc = Idle
    /\ drm = Idle /\ cfgFile = Idle /\ files = Idle /\ dirOrder = Idle
    /\ profiles = Idle /\ buf = Idle /\ tasks = Idle /\ locks = Idle

OcioFrame ==
    UNCHANGED <<hdr_support, monitors, config, svc, drm, cfgFile, files,
                dirOrder, profiles, buf, tasks, locks>>

\* The service has started: ColorService::new() made the manager, init did
\* not touch it
InitOcio ==
    /\ OcioIdle
    /\ ocio_manager = OcioNew
    /\ \E fs \in [OcioPaths -> UNION {OcioFilesAt(q) : q \in OcioPaths}] :
        /\ \A q \in OcioPaths : fs[q] \in OcioFilesAt(q)
        /\ docs = [files |-> fs, env |-> None]
    /\ last = [op |-> "new"]

SetOcioConfig ==
    \E path \in OcioPaths \cup {""} :
        LET r == set_ocio_config(ocio_manager, docs, path)
        IN /\ ocio_manager' = r.mgr
           /\ docs' = r.platform
           /\ last' = [op |-> "set_ocio_config", path |-> path, res |-> r.res]
           /\ OcioFrame

GetOcioConfig ==
    /\ last' = [op |-> "get_ocio_config", res |-> get_ocio_config(ocio_manager)]
    /\ UNCHANGED <<ocio_manager, docs>>
    /\ OcioFrame

ListOcioColorSpaces ==
    /\ last' = [op |-> "list_ocio_color_spaces",
                res |-> list_color_spaces(ocio_manager)]
    /\ UNCHANGED <<ocio_manager, docs>>
    /\ OcioFrame

\* A document is written, removed or made unreadable
OcioFileChange ==
    \E q \in OcioPaths :
        \E f \in OcioFilesAt(q) \ {docs.files[q]} :
            /\ docs' = [docs EXCEPT !.files[q] = f]
            /\ last' = [op |-> "file_change"]
            /\ UNCHANGED ocio_manager
            /\ OcioFrame

NextOcio ==
    \/ SetOcioConfig
    \/ GetOcioConfig
    \/ ListOcioColorSpaces
    \/ OcioFileChange

SpecOcio == InitOcio /\ [][NextOcio]_vars

---------------------------------------------------------------------------
(* dbus.rs: the calls as tasks that take and give back the RwLocks.  Each   *)
(* call is a program of instructions; a guard made inside a statement is    *)
(* given back at the statement's end, a guard bound by `let` at the end of  *)
(* the function.  The waiting queue of tokio's RwLock is not kept: a lock   *)
(* is taken whenever its state allows it.                                   *)

\* The fields of ColorService that are locks
LockNames ==
    {"config", "icc_manager", "ocio_manager", "hdr_support", "monitors"}

Ins(i, lock, mode, arg) == [i |-> i, lock |-> lock, mode |-> mode, arg |-> arg]

Acq(lock, mode) == Ins("acquire", lock, mode, 0)

Rel(lock) == Ins("release", lock, "", 0)

Do(i) == Ins(i, "", "", 0)

\* A statement `self.<lock>.read().await.<body>` or `.write().await.<body>`
Statement(lock, mode, body) == <<Acq(lock, mode)>> \o body \o <<Rel(lock)>>

\* scan_profiles: clear(), then scan_directory for each directory
ScanBody ==
    <<Do("clear")>>
        \o [k \in 1..Len(system_paths) + 1 |-> Ins("scan_directory", "", "", k)]

\* refresh giving the profile lock back between clear() and the scan
RefreshProgram_unlocked ==
    Statement("icc_manager", "W", <<Do("clear")>>)
        \o Statement("icc_manager", "W", Tail(ScanBody))
        \o <<Do("detect_monitors")>>
        \o Statement("monitors", "W", <<Do("store_monitors")>>)
        \o <<Do("detect_hdr")>>
        \o Statement("hdr_support", "W", <<Do("store_hdr")>>)

\* refresh keeping the profile lock until it returns
RefreshProgram_nested ==
    <<Acq("icc_manager", "W")>> \o ScanBody
        \o <<Do("detect_monitors")>>
        \o Statement("monitors", "W", <<Do("store_monitors")>>)
        \o <<Do("detect_hdr")>>
        \o Statement("hdr_support", "W", <<Do("store_hdr")>>)
        \o <<Rel("icc_manager")>>

\* ColorService::refresh
RefreshProgram ==
    Statement("icc_manager", "W", ScanBody)
        \o <<Do("detect_monitors")>>
        \o Statement("monitors", "W", <<Do("store_monitors")>>)
        \o <<Do("detect_hdr")>>
        \o Statement("hdr_support", "W", <<Do("store_hdr")>>)

\* A call that changes the configuration, writing the file after it gave the
\* guard back
ConfigWriteProgram_late(op) ==
    Statement("config", "W", <<Do(op), Do("to_string_pretty")>>)
        \o <<Do("write")>>

\* set_enabled and set_monitor_profile: the guard is bound by `let`, so the
\* change, and save's to_string_pretty(self) and std::fs::write, all run
\* under it
ConfigWriteProgram(op) ==
    Statement("config", "W", <<Do(op), Do("to_string_pretty"), Do("write")>>)

\* ColorService::init
InitProgram ==
    <<Do("load_config")>>
        \o Statement("config", "W", <<Do("store_config")>>)
        \o RefreshProgram

\* The program of each method of the interface, and of init
Program(op) ==
    CASE op = "init" -> InitProgram
      [] op = "refresh" -> RefreshProgram
      [] op \in {"is_enabled", "get_monitor_profile", "list_workflows",
                 "get_workflow_config"} ->
            Statement("config", "R", <<Do(op)>>)
      [] op \in {"set_enabled", "set_monitor_profile"} ->
            ConfigWriteProgram(op)
      [] op = "list_monitors" -> Statement("monitors", "R", <<Do(op)>>)
      [] op \in {"list_profiles", "list_display_profiles",
                 "get_profile_path"} ->
            Statement("icc_manager", "R", <<Do(op)>>)
      [] op = "install_profile" -> Statement("icc_manager", "W", <<Do(op)>>)
      [] op \in {"is_hdr_supported", "is_hdr_active"} ->
            Statement("hdr_support", "R", <<Do(op)>>)
      [] op \in {"enable_hdr", "disable_hdr"} ->
            Statement("hdr_support", "W", <<Do(op)>>)
      [] op \in {"get_ocio_config", "list_ocio_color_spaces"} ->
            Statement("ocio_manager", "R", <<Do(op)>>)
      [] op = "set_ocio_config" -> Statement("ocio_manager", "W", <<Do(op)>>)
      [] op = "get_version" -> <<Do(op)>>

\* Every method of the interface, and init
AllOps ==
    {"init", "refresh", "get_version", "is_enabled", "set_enabled",
     "list_monitors", "get_monitor_profile", "set_monitor_profile",
     "list_profiles", "list_display_profiles", "get_profile_path",
     "install_profile", "is_hdr_supported", "is_hdr_active", "enable_hdr",
     "disable_hdr", "get_ocio_config", "set_ocio_config",
     "list_ocio_color_spaces", "list_workflows", "get_workflow_config"}

\* The locks a program holds after its first k instructions
RECURSIVE HeldAfter(_, _)
HeldAfter(prog, k) ==
    IF k = 0 THEN {}
    ELSE LET before == HeldAfter(prog, k - 1)
         IN CASE prog[k].i = "acquire" -> before \cup {prog[k].lock}
              [] prog[k].i = "release" -> before \ {prog[k].lock}
              [] OTHER -> before

\* The calls clients make while the service runs
LockOps ==
    {"refresh", "list_profiles", "get_profile_path", "list_monitors",
     "is_hdr_active", "enable_hdr"}

\* The tasks: "a" runs init, then both serve calls
LockTasks == {"a", "b"}

IdleTask == [op |-> "idle", pc |-> 0, tmp |-> None]

Free == [writer |-> {}, readers |-> {}]

\* The profile directories before and after a package brought new profiles
OldFiles ==
    [f \in {join(system_paths[1], F_P3_icc)} |-> GoodDisplay]

NewFiles ==
    [f \in {join(system_paths[1], F_sRGB_icc), join(user_path, F_P3_icc)} |->
        IF f.name = F_P3_icc THEN GoodDisplay ELSE GoodPrinter]

\* /sys/class/drm with no connector, and with one display plugged in
LockDrm ==
    {DrmWith(EmptyMap),
     DrmWith([n \in {N_DP1} |->
                [status |-> Some(S_connected \o NL), edid |-> None]])}

\* The instruction a task is at; its program is over when there is none
AtEnd(t) == tasks[t].pc > Len(Program(tasks[t].op))

Busy(t) == tasks[t].op # "idle"

Cur(t) == Program(tasks[t].op)[tasks[t].pc]

\* The locks a task holds
Held(t) ==
    {l \in LockNames : t \in locks[l].writer \/ t \in locks[l].readers}

\* RwLock: write() needs the lock free, read() needs it free of a writer
CanTake(lock, mode) ==
    IF mode = "W" THEN locks[lock] = Free ELSE locks[lock].writer = {}

\* Whether a task can take its next step
CanStep(t) ==
    /\ Busy(t)
    /\ (~AtEnd(t) /\ Cur(t).i = "acquire")
            => CanTake(Cur(t).lock, Cur(t).mode)

LockFrame == UNCHANGED <<cfgFile, dirOrder, buf, ocio_manager, docs>>

\* ColorService::new() done, init about to run
InitLock ==
    /\ buf = Idle /\ ocio_manager = Idle /\ docs = Idle
    /\ svc = "new"
    /\ drm \in LockDrm
    /\ cfgFile = [exists |-> FALSE, readable |-> FALSE, text |-> Garbage]
    /\ files = OldFiles
    /\ dirOrder = SvcOrder
    /\ config = ColorConfigDefault
    /\ profiles = scan_profiles(EmptyMap, files, dirOrder)
    /\ hdr_support = HdrNew
    /\ monitors = <<>>
    /\ tasks = [t \in LockTasks |->
                    IF t = "a" THEN [op |-> "init", pc |-> 1, tmp |-> None]
                    ELSE IdleTask]
    /\ locks = [l \in LockNames |-> Free]
    /\ last = [op |-> "new"]

\* A client's call arrives
LockStart ==
    \E t \in LockTasks, op \in LockOps :
        /\ svc = "running"
        /\ ~Busy(t)
        /\ tasks' = [tasks EXCEPT ![t] = [op |-> op, pc |-> 1, tmp |-> None]]
        /\ UNCHANGED <<hdr_support, monitors, config, svc, drm, files,
                       profiles, locks, last>>
        /\ LockFrame

\* .read().await / .write().await
LockAcquire ==
    \E t \in LockTasks :
        /\ Busy(t) /\ ~AtEnd(t)
        /\ Cur(t).i = "acquire"
        /\ CanTake(Cur(t).lock, Cur(t).mode)
        /\ locks' = [locks EXCEPT ![Cur(t).lock] =
                        IF Cur(t).mode = "W"
                        THEN [@ EXCEPT !.writer = {t}]
                        ELSE [@ EXCEPT !.readers = @ \cup {t}]]
        /\ tasks' = [tasks EXCEPT ![t].pc = @ + 1]
        /\ UNCHANGED <<hdr_support, monitors, config, svc, drm, files,
                       profiles, last>>
        /\ LockFrame

\* The guard is dropped
LockRelease ==
    \E t \in LockTasks :
        /\ Busy(t) /\ ~AtEnd(t)
        /\ Cur(t).i = "release"
        /\ locks' = [locks EXCEPT ![Cur(t).lock] =
                        [writer |-> @.writer \ {t}, readers |-> @.readers \ {t}]]
        /\ tasks' = [tasks EXCEPT ![t].pc = @ + 1]
        /\ UNCHANGED <<hdr_support, monitors, config, svc, drm, files,
                       profiles, last>>
        /\ LockFrame

\* A step of a call's body
LockCompute ==
    \E t \in LockTasks :
        /\ Busy(t) /\ ~AtEnd(t)
        /\ Cur(t).i \notin {"acquire", "release"}
        /\ LET i == Cur(t).i
               tmp == tasks[t].tmp
           IN /\ profiles' =
                    CASE i = "clear" -> EmptyMap
                      [] i = "scan_directory" ->
                            scan_directory(profiles, files, dirOrder,
                                Append(system_paths, user_path)[Cur(t).arg])
                      [] OTHER -> profiles
              /\ monitors' = IF i = "store_monitors" THEN tmp.v ELSE monitors
              /\ hdr_support' =
                    CASE i = "store_hdr" -> tmp.v
                      [] i = "enable_hdr" ->
                            enable_hdr(hdr_support, N_DP1,
                                       enable_hdr_drm(N_DP1)).hdr
                      [] OTHER -> hdr_support
              /\ config' = IF i = "store_config" THEN tmp.v ELSE config
              /\ tasks' = [tasks EXCEPT
                    ![t].pc = @ + 1,
                    ![t].tmp =
                        CASE i = "load_config" -> Some(load(cfgFile).v)
                          [] i = "detect_monitors" -> Some(detect_monitors(drm))
                          [] i = "detect_hdr" ->
                                Some(HdrDetect(detect_monitors(drm)))
                          [] OTHER -> None]
              /\ last' =
                    CASE i = "list_profiles" ->
                            [op |-> i, res |-> svc_list_profiles(profiles)]
                      [] i = "get_profile_path" ->
                            [op |-> i, res |-> svc_get_profile_path(profiles, T_P3)]
                      [] i = "list_monitors" ->
                            [op |-> i,
                             res |-> [k \in 1..Len(monitors) |-> monitors[k].name]]
                      [] i = "is_hdr_active" ->
                            [op |-> i, res |-> is_hdr_active(hdr_support, N_DP1)]
                      [] OTHER -> last
        /\ UNCHANGED <<svc, drm, files, locks>>
        /\ LockFrame

\* The call returns; when init returns the service goes on the bus
LockFinish ==
    \E t \in LockTasks :
        /\ Busy(t) /\ AtEnd(t)
        /\ svc' = IF tasks[t].op = "init" THEN "running" ELSE svc
        /\ tasks' = [tasks EXCEPT ![t] = IdleTask]
        /\ UNCHANGED <<hdr_support, monitors, config, drm, files, profiles,
                       locks, last>>
        /\ LockFrame

\* A display is plugged in or out
LockHotplug ==
    /\ drm' \in LockDrm \ {drm}
    /\ UNCHANGED <<hdr_support, monitors, config, svc, files, profiles, tasks,
                   locks, last>>
    /\ LockFrame

\* The profile directories change, while no scan is under way
LockFsChange ==
    /\ locks["icc_manager"].writer = {}
    /\ files' \in {OldFiles, NewFiles} \ {files}
    /\ UNCHANGED <<hdr_support, monitors, config, svc, drm, profiles, tasks,
                   locks, last>>
    /\ LockFrame

NextLock ==
    \/ LockStart
    \/ LockAcquire
    \/ LockRelease
    \/ LockCompute
    \/ LockFinish
    \/ LockHotplug
    \/ LockFsChange

SpecLock == InitLock /\ [][NextLock]_vars

---------------------------------------------------------------------------
(* dbus.rs: the calls on the configuration, made by two tasks at once.     *)
(* The service has started; its configuration is what init loaded.  A      *)
(* save fails before it writes (create_dir_all, or opening the file), and  *)
(* then leaves the file as it was.                                         *)

\* ColorService::is_enabled
is_enabled(cfg) == cfg.global.enabled

\* ColorService::set_enabled, the assignment
set_enabled(cfg, enabled) == [cfg EXCEPT !.global.enabled = enabled]

\* `config.save().is_ok()` undoing the call's change when the save failed
save_is_ok_rollback(cfg, before, saved) ==
    [config |-> IF is_ok(saved.res) THEN cfg ELSE before,
     res |-> is_ok(saved.res)]

\* `config.save().is_ok()`: the call's answer, and the configuration the
\* guard holds when it is dropped.  before is the configuration the call
\* found, saved the outcome of save.
save_is_ok(cfg, before, saved) == [config |-> cfg, res |-> is_ok(saved.res)]

\* The arguments of a call, and what the call keeps between its steps:
\* the configuration it found and the text to_string_pretty gave
CallArgs(enabled, monitor, path, io_ok) ==
    [enabled |-> enabled, monitor |-> monitor, path |-> path, io_ok |-> io_ok,
     before |-> None, content |-> None, returned |-> FALSE]

\* The calls clients make
CfgCalls ==
    {[op |-> "set_enabled", pc |-> 1,
      tmp |-> Some(CallArgs(b, <<>>, <<>>, io_ok))] :
        b \in BOOLEAN, io_ok \in BOOLEAN}
    \cup {[op |-> "set_monitor_profile", pc |-> 1,
           tmp |-> Some(CallArgs(FALSE, N_DP1, p, io_ok))] :
            p \in {<<>>, to_string_lossy(join(system_paths[1], F_P3_icc))},
            io_ok \in BOOLEAN}
    \cup {[op |-> "set_monitor_profile", pc |-> 1,
           tmp |-> Some(CallArgs(FALSE, N_HDMI1, <<>>, TRUE))]}
    \cup {[op |-> "is_enabled", pc |-> 1,
           tmp |-> Some(CallArgs(FALSE, <<>>, <<>>, TRUE))]}
    \cup {[op |-> "get_monitor_profile", pc |-> 1,
           tmp |-> Some(CallArgs(FALSE, N_DP1, <<>>, TRUE))]}

CfgFrame ==
    UNCHANGED <<hdr_support, monitors, svc, drm, files, dirOrder, profiles,
                buf, ocio_manager, docs>>

\* init has loaded the configuration: the defaults when there was no file,
\* the file's document otherwise
InitCfg ==
    /\ hdr_support = Idle /\ monitors = Idle /\ drm = Idle /\ files = Idle
    /\ dirOrder = Idle /\ profiles = Idle /\ buf = Idle
    /\ ocio_manager = Idle /\ docs = Idle
    /\ svc = "running"
    /\ cfgFile \in {f \in CfgFiles : is_ok(load(f))}
    /\ config = load(cfgFile).v
    /\ tasks = [t \in LockTasks |-> IdleTask]
    /\ locks = [l \in LockNames |-> Free]
    /\ last = [op |-> "init", res |-> TRUE, saved |-> FALSE, failed |-> FALSE]

\* A client's call arrives
CfgStart ==
    \E t \in LockTasks, call \in CfgCalls :
        /\ ~Busy(t)
        /\ tasks' = [tasks EXCEPT ![t] = call]
        /\ UNCHANGED <<config, cfgFile, locks, last>>
        /\ CfgFrame

\* A step of a call's body.  last keeps the latest answer, and whether a
\* save has succeeded and whether one has failed so far.
CfgCompute ==
    \E t \in LockTasks :
        /\ Busy(t) /\ ~AtEnd(t)
        /\ Cur(t).i \notin {"acquire", "release"}
        /\ LET i == Cur(t).i
               a == tasks[t].tmp.v
               known == a.monitor \in DOMAIN config.monitors
               saved == save(a.content.v, cfgFile, a.io_ok)
               answer == save_is_ok(config, a.before.v, saved)
               writes == i = "write" /\ ~a.returned
           IN /\ config' =
                    CASE i = "set_enabled" -> set_enabled(config, a.enabled)
                      [] i = "set_monitor_profile" ->
                            set_monitor_profile(config, cfgFile, a.monitor,
                                                a.path, a.io_ok).config
                      [] writes -> answer.config
                      [] OTHER -> config
              /\ cfgFile' = IF writes THEN saved.file ELSE cfgFile
              /\ tasks' = [tasks EXCEPT
                    ![t].pc = @ + 1,
                    ![t].tmp =
                        CASE i = "set_enabled" ->
                                Some([a EXCEPT !.before = Some(config)])
                          [] i = "set_monitor_profile" ->
                                Some([a EXCEPT !.before = Some(config),
                                               !.returned = ~known])
                          [] i = "to_string_pretty" /\ ~a.returned ->
                                Some([a EXCEPT !.content = Some(config)])
                          [] OTHER -> @]
              /\ last' =
                    CASE i = "is_enabled" ->
                            [last EXCEPT !.op = i, !.res = is_enabled(config)]
                      [] i = "get_monitor_profile" ->
                            [last EXCEPT !.op = i,
                                !.res = get_monitor_profile(config, a.monitor)]
                      [] i = "set_monitor_profile" /\ ~known ->
                            [last EXCEPT !.op = i, !.res = FALSE]
                      [] writes ->
                            [op |-> tasks[t].op, res |-> answer.res,
                             saved |-> last.saved \/ answer.res,
                             failed |-> last.failed \/ ~answer.res]
                      [] OTHER -> last
        /\ UNCHANGED locks
        /\ CfgFrame

NextCfg ==
    \/ CfgStart
    \/ LockAcquire
    \/ LockRelease
    \/ CfgCompute
    \/ LockFinish

SpecCfg == InitCfg /\ [][NextCfg]_vars

---------------------------------------------------------------------------
(* Properties of the HDR controller (SpecHdr) *)

Tracked == 1..Len(hdr_support.monitors)

\* C2: in every reachable state of the controller, a monitor whose hdr_active
\* flag is true has a capability other than None.
C2_ActiveIsCapable ==
    \A i \in Tracked :
        hdr_support.monitors[i].hdr_active
            => hdr_support.monitors[i].capability # "None"

\* C2 happens: enable_hdr has just refused a tracked monitor of capability
\* None while another monitor is active.
C2_Witness ==
    /\ last.op = "enable_hdr"
    /\ last.res = HdrNotSupported
    /\ \E i \in Tracked :
        /\ hdr_support.monitors[i].name = last.name
        /\ hdr_support.monitors[i].capability = "None"
    /\ \E i \in Tracked : hdr_support.monitors[i].hdr_active

\* C9: enable_hdr(name) and disable_hdr(name) with a name that is not tracked
\* fail with MonitorNotFound(name) and leave every tracked monitor as it was.
C9_AbsentName ==
    [][(/\ last'.op \in {"enable_hdr", "disable_hdr"}
        /\ find(hdr_support.monitors, last'.name) = 0)
       => (/\ last'.res = MonitorNotFound(last'.name)
           /\ hdr_support' = hdr_support)]_vars

\* C9 happens: disable_hdr has just failed on an untracked name while a
\* tracked monitor is active.
C9_Witness ==
    /\ last.op = "disable_hdr"
    /\ last.res = MonitorNotFound(last.name)
    /\ find(hdr_support.monitors, last.name) = 0
    /\ \E i \in Tracked :
        /\ hdr_support.monitors[i].hdr_active
        /\ hdr_support.monitors[i].metadata # None

\* C10: set_hdr_metadata(name, m) on a tracked monitor that is not active fails
\* with HdrNotSupported and changes nothing; on an active monitor it succeeds
\* and the stored metadata becomes m.
C10_SetMetadata ==
    [][(/\ last'.op = "set_hdr_metadata"
        /\ find(hdr_support.monitors, last'.name) # 0)
       => LET i == find(hdr_support.monitors, last'.name)
          IN IF ~hdr_support.monitors[i].hdr_active
             THEN /\ last'.res = HdrNotSupported
                  /\ hdr_support' = hdr_support
             ELSE /\ last'.res = Ok
                  /\ hdr_support'.monitors[i].metadata = Some(last'.meta)
                  /\ hdr_support'.monitors[i].hdr_active
                  /\ \A j \in Tracked \ {i} :
                        hdr_support'.monitors[j] = hdr_support.monitors[j]]_vars

\* C10 happens: set_hdr_metadata has just been refused on a capable but
\* inactive monitor, while an active monitor holds metadata set by an
\* earlier call.
C10_Witness ==
    /\ last.op = "set_hdr_metadata"
    /\ last.res = HdrNotSupported
    /\ \E i \in Tracked :
        /\ hdr_support.monitors[i].name = last.name
        /\ hdr_support.monitors[i].capability # "None"
        /\ ~hdr_support.monitors[i].hdr_active
        /\ hdr_support.monitors[i].metadata = None
    /\ \E i \in Tracked :
        /\ hdr_support.monitors[i].hdr_active
        /\ hdr_support.monitors[i].metadata = Some(HlgMetadata)

\* C11: enable_hdr on a tracked monitor whose capability is not None returns
\* Ok and leaves that monitor active with the default HDR10 metadata, whatever
\* the platform call answered; the other monitors are untouched.
C11_EnableDefaults ==
    [][\A i \in Tracked :
        (/\ last'.op = "enable_hdr"
         /\ i = find(hdr_support.monitors, last'.name)
         /\ hdr_support.monitors[i].capability # "None")
            => (/\ last'.res = Ok
                /\ Len(hdr_support'.monitors) = Len(hdr_support.monitors)
                /\ hdr_support'.monitors[i].hdr_active
                /\ hdr_support'.monitors[i].metadata =
                    Some([format |-> "Hdr10", max_luminance |-> 1000,
                          max_frame_average |-> 400,
                          min_luminance |-> "0.001", primaries |-> "bt2020",
                          white_point |-> <<"0.3127", "0.3290">>,
                          transfer_function |-> "Pq"])
                /\ \A j \in Tracked \ {i} :
                        hdr_support'.monitors[j] = hdr_support.monitors[j])
      ]_vars

\* The case of C11: the platform call failed, and the HLG-capable monitor
\* asked for is active with the defaults all the same
C11_Witness ==
    /\ last.op = "enable_hdr"
    /\ last.platform = IoError
    /\ last.res = Ok
    /\ \E i \in Tracked :
        /\ hdr_support.monitors[i].name = last.name
        /\ hdr_support.monitors[i].capability = "HlgBt2100"
        /\ hdr_support.monitors[i].hdr_active
        /\ hdr_support.monitors[i].metadata = Some(default_hdr10_metadata)


\* C24: every tracked monitor has metadata exactly when it is active; detect
\* leaves every monitor inactive without metadata, an accepted enable_hdr
\* sets both, an accepted disable_hdr clears both whatever the monitor's
\* state was, and set_hdr_metadata on an inactive monitor is refused and
\* changes nothing.
C24_MetadataIffActive ==
    /\ [](\A i \in Tracked :
            hdr_support.monitors[i].metadata.some
                <=> hdr_support.monitors[i].hdr_active)
    /\ [][LET i == find(hdr_support.monitors, last'.name)
              after == hdr_support'.monitors
          IN /\ last'.op = "detect"
                    => \A k \in 1..Len(after) :
                        ~after[k].hdr_active /\ after[k].metadata = None
             /\ (last'.op = "enable_hdr" /\ last'.res = Ok)
                    => after[i].hdr_active /\ after[i].metadata.some
             /\ (last'.op = "disable_hdr" /\ i # 0)
                    => /\ last'.res = Ok
                       /\ ~after[i].hdr_active
                       /\ after[i].metadata = None
                       /\ disable_hdr(hdr_support', last'.name).hdr
                            = hdr_support'
             /\ (/\ last'.op = "set_hdr_metadata"
                 /\ i # 0
                 /\ ~hdr_support.monitors[i].hdr_active)
                    => /\ last'.res = HdrNotSupported
                       /\ hdr_support' = hdr_support]_vars

\* The case of C24: disable_hdr has just been accepted for a tracked monitor,
\* which is inactive without metadata, while another tracked monitor is
\* active and carries metadata a caller set
C24_Witness ==
    /\ last.op = "disable_hdr"
    /\ last.res = Ok
    /\ \E i \in Tracked :
        /\ hdr_support.monitors[i].name = last.name
        /\ ~hdr_support.monitors[i].hdr_active
        /\ hdr_support.monitors[i].metadata = None
    /\ \E i \in Tracked :
        /\ hdr_support.monitors[i].hdr_active
        /\ hdr_support.monitors[i].metadata = Some(HlgMetadata)

\* C25: detection replaces the controller without merging: right after it
\* every tracked monitor is inactive without metadata and is_hdr_active is
\* false for every name, also for a monitor that was active before; a
\* monitor only turns active by an accepted enable_hdr for its name.
C25_DetectReplaces ==
    /\ [][last'.op = "detect"
            => /\ \A k \in 1..Len(hdr_support'.monitors) :
                    /\ ~hdr_support'.monitors[k].hdr_active
                    /\ hdr_support'.monitors[k].metadata = None
               /\ \A n \in HdrNames : ~is_hdr_active(hdr_support', n)]_vars
    /\ [][\A n \in HdrNames :
            (~is_hdr_active(hdr_support, n) /\ is_hdr_active(hdr_support', n))
                => (/\ last'.op = "enable_hdr"
                    /\ last'.name = n
                    /\ last'.res = Ok)]_vars

\* The case of C25: a monitor that was active is tracked again after a
\* detection, inactive and without metadata
C25_Witness ==
    /\ last.op = "detect"
    /\ \E i \in Tracked :
        /\ hdr_support.monitors[i].name \in last.was_active
        /\ ~hdr_support.monitors[i].hdr_active
        /\ hdr_support.monitors[i].metadata = None
        /\ ~is_hdr_active(hdr_support, hdr_support.monitors[i].name)

---------------------------------------------------------------------------
(* Properties of the ICC header parser (SpecParse) *)

\* The size field read as a big-endian number, byte by byte
DeclaredSize ==
    ((buf.size[1] * 256 + buf.size[2]) * 256 + buf.size[3]) * 256 + buf.size[4]

\* C6: a buffer shorter than 128 bytes is rejected as too small; a buffer of
\* at least 128 bytes whose big-endian size field exceeds its length is
\* rejected as incomplete; any other buffer of at least 128 bytes is accepted.
C6_HeaderChecks ==
    last.op = "load_profile" =>
        /\ buf.len < 128 => last.res = IccError("Profile too small")
        /\ (buf.len >= 128 /\ DeclaredSize > buf.len)
                => last.res = IccError("Incomplete profile")
        /\ (buf.len >= 128 /\ DeclaredSize <= buf.len) => last.res.tag = "Ok"

\* C6 happens: a buffer of exactly its declared size, above 128, was accepted.
C6_Witness ==
    /\ last.op = "load_profile"
    /\ buf.len = DeclaredSize
    /\ buf.len = 256
    /\ last.res.tag = "Ok"
    /\ last.res.profile.profile_class = "Display"

---------------------------------------------------------------------------
(* Properties of the profile index (SpecIcc) *)

\* A file the header parser accepts
WellFormed(data) ==
    /\ data.readable
    /\ data.len >= 128
    /\ ((data.size[1] * 256 + data.size[2]) * 256 + data.size[3]) * 256
            + data.size[4] <= data.len

\* The stem of a file name of the shape stem.ext
StemOf(name) ==
    CHOOSE t \in {SubSeq(name, 1, k) : k \in 0..Len(name)} :
        \E e \in {E_icc, E_icm, E_txt} : name = t \o <<".">> \o e

\* The well-formed .icc and .icm files of the scanned directories
Scanned ==
    {f \in DOMAIN files :
        /\ \E i \in 1..Len(system_paths) : f.dir = system_paths[i]
           \/ f.dir = user_path
        /\ \E t \in ProfileNames :
              f.name = t \o <<".">> \o E_icc \/ f.name = t \o <<".">> \o E_icm
        /\ WellFormed(files[f])}

\* An install_profile step that succeeded on a well-formed display profile:
\* the copy in the user directory holds the installed content.
InstalledDisplay ==
    /\ last'.op = "install_profile"
    /\ last'.res = Ok
    /\ WellFormed(files'[join(user_path, last'.source.name)])
    /\ files'[join(user_path, last'.source.name)].class = "mntr"

\* C4 as stated: a successful install_profile of a well-formed mntr profile
\* with stem S puts S into list_display_profiles, makes get_profile_path(S)
\* the path of the copy in the user directory, and makes list_profiles one
\* entry longer, whatever the index held before.
C4_Original ==
    [][InstalledDisplay =>
        LET S == StemOf(last'.source.name)
        IN /\ S \in svc_list_display_profiles(profiles')
           /\ svc_get_profile_path(profiles', S)
                = slashed(user_path) \o <<"/">> \o last'.source.name
           /\ Cardinality(list_profiles(profiles'))
                = Cardinality(list_profiles(profiles)) + 1]_vars

\* C4 as amended: the same, except that list_profiles grows by one only if
\* no profile called S was indexed before, and keeps its length otherwise.
C4_Install ==
    [][InstalledDisplay =>
        LET S == StemOf(last'.source.name)
        IN /\ S \in svc_list_display_profiles(profiles')
           /\ svc_get_profile_path(profiles', S)
                = slashed(user_path) \o <<"/">> \o last'.source.name
           /\ Cardinality(list_profiles(profiles'))
                = Cardinality(list_profiles(profiles))
                    + (IF S \in DOMAIN profiles THEN 0 ELSE 1)]_vars

\* C4 happens: install_profile has just put a display profile into an index
\* that holds another profile too.
C4_Witness ==
    /\ last.op = "install_profile"
    /\ last.res = Ok
    /\ last.source.name = F_P3_icc
    /\ files[join(user_path, F_P3_icc)] = GoodDisplay
    /\ profiles[T_P3].path = join(user_path, F_P3_icc)
    /\ profiles[T_P3].profile_class = "Display"
    /\ Cardinality(DOMAIN profiles) = 2

\* C5 as stated: after scan the index holds exactly as many entries as the
\* scanned directories hold well-formed .icc/.icm files.
C5_Original ==
    last.op = "scan_profiles" =>
        Cardinality(DOMAIN profiles) = Cardinality(Scanned)

\* C5 as amended: after scan the index holds exactly one entry per distinct
\* stem of the well-formed .icc/.icm files (N entries when the N stems
\* differ), each naming one of those files; malformed files and whatever the
\* index held before leave no trace, and a scan right after a scan changes
\* nothing.
C5_Scan ==
    /\ [](last.op = "scan_profiles" =>
            /\ DOMAIN profiles = {StemOf(f.name) : f \in Scanned}
            /\ \A n \in DOMAIN profiles :
                /\ profiles[n].name = n
                /\ profiles[n].path \in Scanned
                /\ StemOf(profiles[n].path.name) = n
                /\ profiles[n].profile_class
                        = profile_class_of(files[profiles[n].path].class))
    /\ [][(last.op = "scan_profiles" /\ last'.op = "scan_profiles")
            => profiles' = profiles]_vars

\* C5 happens: a scan has just indexed a well-formed file and skipped a
\* malformed .icc or .icm file.
C5_Witness ==
    /\ last.op = "scan_profiles"
    /\ Cardinality(DOMAIN profiles) = 1
    /\ Cardinality(Scanned) = 1
    /\ \E f \in DOMAIN files :
        /\ ~WellFormed(files[f])
        /\ extension(f) \in {Some(E_icc), Some(E_icm)}

\* C7: remove(name) returns success only if the index holds a profile called
\* name whose path lies under the user directory, and then the entry is gone;
\* in every other case (system profile, unknown name, deletion failure) it
\* returns an error and the index is unchanged.
C7_Remove ==
    [][last'.op = "remove_profile" =>
        /\ last'.res = Ok =>
            /\ last'.name \in DOMAIN profiles
            /\ starts_with(profiles[last'.name].path.dir, user_path)
            /\ last'.name \notin DOMAIN profiles'
        /\ last'.res # Ok => profiles' = profiles
        /\ (\/ last'.name \notin DOMAIN profiles
            \/ ~starts_with(profiles[last'.name].path.dir, user_path))
                => last'.res # Ok]_vars

\* C7 happens: remove_profile has just answered Ok for a name the index does
\* not hold.
C7_Witness ==
    /\ last.op = "remove_profile"
    /\ last.res = Ok
    /\ last.name \notin DOMAIN profiles
    /\ T_P3 \in DOMAIN profiles



\* C22: whenever install_profile returns success the index holds an entry
\* named after the source file's stem whose path is the copy in the user
\* directory; when it returns failure the index is as it was.
C22_InstallInserts ==
    [][last'.op = "install_profile"
        => IF last'.res = Ok
           THEN /\ StemOf(last'.source.name) \in DOMAIN profiles'
                /\ profiles'[StemOf(last'.source.name)].path
                        = join(user_path, last'.source.name)
           ELSE profiles' = profiles]_vars

\* The case of C22: a file whose header is cut short was installed; the call
\* answered Ok, the copy is in the user directory and no entry has its name
C22_Witness ==
    /\ last.op = "install_profile"
    /\ last.res = Ok
    /\ join(user_path, last.source.name) \in DOMAIN files
    /\ ~WellFormed(files[join(user_path, last.source.name)])
    /\ StemOf(last.source.name) \notin DOMAIN profiles


\* The well-formed scanned files of directory dir whose stem is t
ScannedIn(dir, t) ==
    {f \in Scanned : f.dir = dir /\ StemOf(f.name) = t}

---------------------------------------------------------------------------
(* Properties of the service (Spec) *)

\* The monitors list_monitors shows under the name n
Listed(n) == {i \in 1..Len(monitors) : monitors[i].name = n}

\* C1: enable_hdr on a monitor the service lists with HDR capability None
\* fails with HdrNotSupported, and is_hdr_active stays false for it.
C1_NoneIsNotSupported ==
    (/\ last.op = "enable_hdr"
     /\ \E i \in Listed(last.name) :
            monitors[i].capabilities.hdr_support = "None")
        => (last.err = HdrNotSupported
            /\ ~is_hdr_active(hdr_support, last.name))

\* The case of C1: HDR was asked for on the placeholder monitor, which the
\* service lists with capability None, and the answer was MonitorNotFound
C1_Witness ==
    /\ last.op = "enable_hdr"
    /\ last.name = N_Default
    /\ Listed(N_Default) # {}
    /\ \A i \in Listed(N_Default) :
            monitors[i].capabilities.hdr_support = "None"
    /\ last.err = MonitorNotFound(N_Default)
    /\ ~last.res

\* C3: when the configuration file is missing, unreadable or unparsable,
\* ColorConfig::load yields the built-in defaults and init goes on to scan the
\* profiles and detect the monitors and HDR.
C3_LoadFallsBack ==
    (/\ last.op = "init"
     /\ (~cfgFile.exists \/ ~cfgFile.readable \/ ~cfgFile.text.toml))
        => (/\ last.load = [tag |-> "Ok", v |-> ColorConfigDefault]
            /\ last.res = Ok
            /\ config = ColorConfigDefault
            /\ monitors # <<>>)

\* The case of C3: the file exists and is no TOML document, and init has
\* failed with the parse error before detecting anything
C3_Witness ==
    /\ last.op = "init"
    /\ cfgFile.exists /\ cfgFile.readable /\ ~cfgFile.text.toml
    /\ last.res = ConfigError
    /\ svc = "failed"
    /\ monitors = <<>>

\* The connectors of d that detection takes for a connected display
Found(d) ==
    IF ~d.exists THEN {}
    ELSE {n \in DOMAIN d.entries :
            /\ starts_with(n, S_card) /\ contains(n, "-")
            /\ (d.entries[n].status.some
                    => trim(d.entries[n].status.v) = S_connected)}

\* C8: while the service runs, the monitor list is never empty and
\* list_monitors never returns an empty list; a detection that finds no
\* connector leaves the single placeholder monitor "Default".
C8_NeverEmpty ==
    /\ [](svc = "running" => monitors # <<>>)
    /\ [](last.op = "list_monitors" => last.res # <<>>)
    /\ [][(/\ \/ last'.op = "refresh"
               \/ (last'.op = "init" /\ last'.res = Ok)
            /\ Found(drm) = {})
                => (/\ Len(monitors') = 1
                    /\ monitors'[1].name = N_Default
                    /\ monitors'[1].edid.resolution = <<1920, 1080>>
                    /\ monitors'[1].capabilities.color_gamut = "Srgb"
                    /\ monitors'[1].capabilities.hdr_support = "None")]_vars

\* The case of C8: a connector is there but unplugged, the list was refreshed
\* and list_monitors answered with the placeholder alone
C8_Witness ==
    /\ svc = "running"
    /\ last.op = "list_monitors"
    /\ last.res = <<N_Default>>
    /\ drm.exists
    /\ N_DP1 \in DOMAIN drm.entries
    /\ Found(drm) = {}
    /\ monitors = <<PlaceholderMonitor>>


\* The monitors the service lists with an HDR capability
HdrListed ==
    {i \in 1..Len(monitors) : monitors[i].capabilities.hdr_support # "None"}

\* C12: once the service runs, is_hdr_supported() is true exactly when some
\* detected monitor has an HDR capability other than None; with the
\* placeholder "Default" as the only monitor it is false.
C12_HdrSupported ==
    /\ svc = "running" => (is_hdr_supported(hdr_support) <=> HdrListed # {})
    /\ last.op = "is_hdr_supported"
        => /\ last.res <=> HdrListed # {}
           /\ monitors = <<PlaceholderMonitor>> => ~last.res

\* The case of C12: only the placeholder is listed, and
\* is_hdr_supported has answered false
C12_Witness ==
    /\ svc = "running"
    /\ last.op = "is_hdr_supported"
    /\ ~last.res
    /\ monitors = <<PlaceholderMonitor>>
    /\ ~hdr_support.enabled


\* The names list_monitors returns
ListedNames == {monitors[i].name : i \in 1..Len(monitors)}

\* C13: after set_monitor_profile(name, path) for a name list_monitors
\* returns, get_monitor_profile(name) returns path ("" when path is empty).
C13_SetPersists ==
    (last.op = "set_monitor_profile" /\ last.name \in ListedNames)
        => get_monitor_profile(config, last.name) = last.path

\* The case of C13: a profile was set for the listed placeholder monitor, the
\* call answered false and get_monitor_profile returns ""
C13_Witness ==
    /\ last.op = "set_monitor_profile"
    /\ last.name = N_Default
    /\ N_Default \in ListedNames
    /\ last.path # <<>>
    /\ ~last.res
    /\ get_monitor_profile(config, N_Default) = <<>>

\* The paths of the indexed profiles
IndexedPaths == {to_string_lossy(pr.path) : pr \in list_profiles(profiles)}

\* C14: set_monitor_profile with a non-empty path that no indexed profile has
\* is rejected and leaves the stored assignments as they were.
C14_ProfileMustExist ==
    [][(/\ last'.op = "set_monitor_profile"
        /\ last'.path # <<>>
        /\ last'.path \notin IndexedPaths)
            => (~last'.res /\ config'.monitors = config.monitors)]_vars

\* The case of C14: a path that no indexed profile has was accepted and is
\* now the monitor's profile
C14_Witness ==
    /\ last.op = "set_monitor_profile"
    /\ last.path # <<>>
    /\ last.path \notin IndexedPaths
    /\ last.res
    /\ get_monitor_profile(config, last.name) = last.path


\* C20: detection lists a connector only if its status file reads
\* "connected"; a connector with any other status, or with a status that
\* cannot be read, is not listed.
C20_OnlyConnected ==
    [][(\/ last'.op = "refresh"
        \/ (last'.op = "init" /\ last'.res = Ok))
            => \A i \in 1..Len(monitors') :
                monitors'[i].name \in Connectors
                    => (/\ drm.exists
                        /\ monitors'[i].name \in DOMAIN drm.entries
                        /\ drm.entries[monitors'[i].name].status.some
                        /\ trim(drm.entries[monitors'[i].name].status.v)
                                = S_connected)
      ]_vars

\* The case of C20: after a refresh the connector whose status file cannot
\* be read is listed, with the EDID defaults
C20_Witness ==
    /\ last.op = "refresh"
    /\ drm.exists
    /\ N_DP1 \in DOMAIN drm.entries
    /\ drm.entries[N_DP1].status = None
    /\ \E i \in 1..Len(monitors) :
        /\ monitors[i].name = N_DP1
        /\ monitors[i].edid = default_edid(N_DP1)


\* The names the HDR controller tracks
TrackedNames ==
    {hdr_support.monitors[i].name : i \in 1..Len(hdr_support.monitors)}

\* C21: in every state the service is in between calls, the monitors the HDR
\* controller tracks are exactly the listed monitors whose capability is not
\* None, a name enable_hdr accepted is a listed name, and the controller's
\* enabled flag says whether it tracks any monitor; also when the displays
\* changed between the two detections of init or refresh.
C21_HdrDerived ==
    /\ TrackedNames = {monitors[i].name : i \in HdrListed}
    /\ hdr_support.enabled <=> TrackedNames # {}
    /\ (last.op = "enable_hdr" /\ last.res) => last.name \in ListedNames

\* The case of C21: a refresh has completed during which a display was
\* plugged in, so the list shows what the first detection saw and the
\* controller was built from the second
C21_Witness ==
    /\ svc = "running"
    /\ last.op = "refresh"
    /\ monitors = <<PlaceholderMonitor>>
    /\ detect_monitors(drm) # monitors
    /\ hdr_support = HdrDetect(detect_monitors(drm))
    /\ TrackedNames = {}


\* C29: set_monitor_profile for a name the configuration's monitors map has
\* no key for returns false and changes neither the configuration in memory
\* nor its file; init takes the map's keys from the configuration file and
\* no other call, refresh included, changes the key set.
C29_UnknownMonitor ==
    /\ [][(/\ last'.op = "set_monitor_profile"
           /\ last'.name \notin DOMAIN config.monitors)
            => (/\ ~last'.res
                /\ config' = config
                /\ cfgFile' = cfgFile)]_vars
    /\ [][IF last'.op = "init" /\ last'.res = Ok
          THEN DOMAIN config'.monitors
                    = IF cfgFile.exists THEN DOMAIN cfgFile.text.doc.monitors
                      ELSE {}
          ELSE DOMAIN config'.monitors = DOMAIN config.monitors]_vars

\* The case of C29: the file named one monitor, another display was detected
\* and is listed, and set_monitor_profile for it has answered false and left
\* the map with the file's key alone
C29_Witness ==
    /\ svc = "running"
    /\ last.op = "set_monitor_profile"
    /\ last.name = N_HDMI1
    /\ N_HDMI1 \in ListedNames
    /\ last.path # <<>>
    /\ ~last.res
    /\ DOMAIN config.monitors = {N_DP1}
    /\ cfgFile.text.doc.monitors = config.monitors

---------------------------------------------------------------------------
(* Properties of the calls and their locks (SpecLock) *)

\* No program of the interface holds two locks at any point, and each has
\* given back every lock when it ends
OneLockPrograms ==
    \A op \in AllOps :
        /\ \A k \in 0..Len(Program(op)) :
                Cardinality(HeldAfter(Program(op), k)) <= 1
        /\ HeldAfter(Program(op), Len(Program(op))) = {}

\* C15: no call, init and refresh included, holds the locks of two subsystems
\* at once; so some call in progress can always take a step, and a call that
\* waits for a lock waits only while another call holds that very lock.
C15_OneLockAtATime ==
    /\ OneLockPrograms
    /\ \A t \in LockTasks : Cardinality(Held(t)) <= 1
    /\ (\E t \in LockTasks : Busy(t)) => (\E t \in LockTasks : CanStep(t))
    /\ \A t \in LockTasks :
        (/\ Busy(t) /\ ~AtEnd(t)
         /\ Cur(t).i = "acquire"
         /\ \A u \in LockTasks \ {t} : Cur(t).lock \notin Held(u))
            => CanStep(t)

\* The case of C15: enable_hdr holds the HDR lock while list_profiles holds
\* the profile lock
C15_Witness ==
    \E t, u \in LockTasks :
        /\ tasks[t].op = "enable_hdr" /\ Held(t) = {"hdr_support"}
        /\ tasks[u].op = "list_profiles" /\ Held(u) = {"icc_manager"}

\* The catalogs a finished scan leaves
CompleteCatalogs ==
    {scan_profiles(EmptyMap, f, SvcOrder) : f \in {OldFiles, NewFiles}}

\* C16: a reader running beside refresh sees, of each subsystem, the state
\* before or the state after the refresh, never a cleared or half-filled one.
C16_AtomicPerSubsystem ==
    /\ locks["icc_manager"].writer = {} => profiles \in CompleteCatalogs
    /\ last.op = "list_profiles"
        => last.res \in {svc_list_profiles(c) : c \in CompleteCatalogs}
    /\ last.op = "get_profile_path"
        => last.res \in {svc_get_profile_path(c, T_P3) : c \in CompleteCatalogs}
    /\ last.op = "list_monitors"
        => \E d \in LockDrm :
            last.res = [k \in 1..Len(detect_monitors(d)) |->
                            detect_monitors(d)[k].name]
    /\ last.op = "is_hdr_active"
        => \E d \in LockDrm :
            last.res = is_hdr_active(HdrDetect(detect_monitors(d)), N_DP1)

\* The case of C16: refresh has cleared the catalog and scanned the first
\* directory of the new files, while list_profiles waits for the lock
C16_Witness ==
    \E t, u \in LockTasks :
        /\ tasks[t].op = "refresh" /\ Held(t) = {"icc_manager"}
        /\ files = NewFiles
        /\ DOMAIN profiles = {T_sRGB}
        /\ tasks[u].op = "list_profiles"
        /\ ~AtEnd(u) /\ Cur(u).i = "acquire" /\ ~CanStep(u)


---------------------------------------------------------------------------
(* Properties of the calls on the configuration (SpecCfg) *)

\* Every call has returned
AllReturned == \A t \in LockTasks : ~Busy(t)

\* The file holds the text of the configuration in memory
Persisted ==
    cfgFile = [exists |-> TRUE, readable |-> TRUE,
               text |-> to_string_pretty(config)]

\* The task that takes a step, when it is at instruction i
Steps(t, i) ==
    /\ Busy(t) /\ ~AtEnd(t)
    /\ Cur(t).i = i
    /\ tasks'[t].pc = tasks[t].pc + 1

\* C28: however set_enabled and set_monitor_profile calls interleave, once
\* every call has returned and the saves made succeeded, the file holds the
\* configuration in memory; the configuration and the file are only changed
\* by the task that holds the config write lock.
C28_NoLostUpdate ==
    /\ []((AllReturned /\ last.saved /\ ~last.failed) => Persisted)
    /\ [][(config' # config \/ cfgFile' # cfgFile)
            => \E t \in LockTasks :
                /\ locks["config"].writer = {t}
                /\ tasks'[t].pc # tasks[t].pc]_vars

\* The case of C28: starting from a file with colour management off and no
\* profile for the monitor, calls have turned it on and set a profile, every
\* save succeeded, every call has returned, and the file holds both changes
C28_Witness ==
    /\ AllReturned
    /\ last.saved /\ ~last.failed
    /\ is_enabled(config)
    /\ get_monitor_profile(config, N_DP1) # <<>>
    /\ DOMAIN config.workflows = {"web"}
    /\ cfgFile.text.doc = config

---------------------------------------------------------------------------
(* Properties of the OCIO parser (SpecOcioParse) *)

\* The sections of the document under parse
HasSection(id) == \E k \in 1..Len(docs.sections) : docs.sections[k] = id

\* The manager after a load of the parsed document
Loaded ==
    [config_path |-> Some(last.res.config.path),
     config |-> Some(last.res.config)]

\* C18: the parse captures default, reference and scene_linear from the
\* lines of the roles section, wherever that section stands in the document,
\* and get_scene_linear() returns the scene_linear value.
C18_RolesCaptured ==
    (last.op = "parse_config" /\ HasSection("roles"))
        => (/\ last.res.config.roles.default = Some("raw")
            /\ last.res.config.roles.reference = Some("lin")
            /\ last.res.config.roles.scene_linear = Some("lin")
            /\ get_scene_linear(Loaded) = Some("lin"))

\* The case of C18: the roles section follows a colorspaces section with an
\* entry, and the parse has captured no role
C18_Witness ==
    /\ last.op = "parse_config"
    /\ \E j, k \in 1..Len(docs.sections) :
        j < k /\ docs.sections[j] = "colorspaces1" /\ docs.sections[k] = "roles"
    /\ last.res.config.roles = OcioRolesDefault
    /\ get_scene_linear(Loaded) = None

\* The color spaces the entries of the document's colorspaces section state
StatedColorSpaces ==
    LET lin == [name |-> "lin", family |-> "scene", description |-> "Linear",
                is_data |-> FALSE]
        raw == [name |-> "raw", family |-> "", description |-> "",
                is_data |-> TRUE]
    IN IF HasSection("colorspaces2") THEN <<lin, raw>>
       ELSE IF HasSection("colorspaces1") THEN <<lin>>
       ELSE <<>>

\* C19: the parse yields one color space per entry marker, in document order,
\* each with the name, family, description and is_data of its own lines, and
\* the document's description is the one its description line states.
C19_EntriesCaptured ==
    last.op = "parse_config"
        => (/\ last.res.config.color_spaces = StatedColorSpaces
            /\ last.res.config.description =
                IF HasSection("description") THEN "Studio config" ELSE "")

\* The case of C19: the document's only sections are its description and one
\* entry; the entry's description has become the document's
C19_Witness ==
    /\ last.op = "parse_config"
    /\ docs.sections = <<"description", "colorspaces1">>
    /\ last.res.config.description = "Linear"
    /\ Len(last.res.config.color_spaces) = 1
    /\ last.res.config.color_spaces[1].name = "lin"
    /\ last.res.config.color_spaces[1].description = ""


---------------------------------------------------------------------------
(* Properties of the OCIO manager (SpecOcio) *)

\* C17: nothing is loaded after startup; set_ocio_config("") returns true and
\* unloads; a successful set_ocio_config(p) makes get_ocio_config() return p;
\* a set_ocio_config that fails, as it does when p does not exist, returns
\* false and leaves the loaded configuration and its color spaces as they
\* were; no other call changes what get_ocio_config() returns.
C17_OcioConfig ==
    /\ [](last.op = "new" => get_ocio_config(ocio_manager) = "")
    /\ [](last.op = "get_ocio_config"
            => last.res = get_ocio_config(ocio_manager))
    /\ [][IF last'.op = "set_ocio_config"
          THEN /\ last'.path = ""
                    => (last'.res /\ get_ocio_config(ocio_manager') = ""
                        /\ list_color_spaces(ocio_manager') = <<>>)
               /\ (last'.path # "" /\ ~docs.files[last'.path].exists)
                    => ~last'.res
               /\ (last'.path # "" /\ last'.res)
                    => get_ocio_config(ocio_manager') = last'.path
               /\ ~last'.res => ocio_manager' = ocio_manager
          ELSE get_ocio_config(ocio_manager') = get_ocio_config(ocio_manager)
       ]_vars

\* The case of C17: a configuration is loaded, a set_ocio_config naming a
\* path that does not exist has returned false, and the loaded one is kept
C17_Witness ==
    /\ last.op = "set_ocio_config"
    /\ last.path = "/home/u/show.ocio"
    /\ ~docs.files[last.path].exists
    /\ ~last.res
    /\ get_ocio_config(ocio_manager) = "/etc/ocio/studio.ocio"
    /\ list_color_spaces(ocio_manager) = <<"lin", "raw">>

---------------------------------------------------------------------------
(* Properties of the manufacturer id (SpecDecode) *)

Letters ==
    {"A", "B", "C", "D", "E", "F", "G", "H", "I", "J", "K", "L", "M", "N",
     "O", "P", "Q", "R", "S", "T", "U", "V", "W", "X", "Y", "Z"}

\* The three 5-bit fields of a manufacturer id
IdFields(id) == <<(id \div 1024) % 32, (id \div 32) % 32, id % 32>>

\* C26: for every 16-bit manufacturer id, decode_manufacturer_id returns
\* three characters, each an upper-case letter A-Z, the k-th being the
\* character of code field k + 'A' - 1, a sum that fits 8 bits.
C26_ThreeLetters ==
    last.op = "decode_manufacturer_id"
        => /\ Len(last.res) = 3
           /\ \A k \in 1..3 :
                /\ IdFields(last.id)[k] + 65 - 1 < 256
                /\ char_at(last.res, k) = Chars64[IdFields(last.id)[k] + 1]
                /\ char_at(last.res, k) \in Letters

\* The case of C26: bytes 8 and 9 are zero and the decoded name is "@@@"
C26_Witness ==
    /\ last.op = "decode_manufacturer_id"
    /\ buf = <<0, 0>>
    /\ last.id = 0
    /\ last.res = "@@@"

\* What does hold for every id: three characters of codes 64..95, letters
\* where the field is 1..26
FieldsDecoded ==
    last.op = "decode_manufacturer_id"
        => /\ Len(last.res) = 3
           /\ \A k \in 1..3 :
                /\ char_at(last.res, k) = Chars64[IdFields(last.id)[k] + 1]
                /\ IdFields(last.id)[k] \in 1..26
                    <=> char_at(last.res, k) \in Letters

====
